---- MODULE Spec2Model ----
(***************************************************************************)
(* Model of the SpiderFoot FastAPI web tier: the Database Access Layer     *)
(* (src/spiderfoot/db.py), the JSON API router                             *)
(* (src/domain/api/api_router.py), the settings helpers                    *)
(* (src/domain/main/main_crud.py) and the Application State                *)
(* (src/domain/state.py).                                                  *)
(*                                                                         *)
(* The store is modelled table by table as a set of rows.  Every request   *)
(* handler is one action; the record `last` holds the answer of the most   *)
(* recent request.                                                         *)
(***************************************************************************)
EXTENDS Integers, Sequences, FiniteSets, TLC

VARIABLES
    scanInstance,                  \* tbl_scan_instance
    scanConfig,                    \* tbl_scan_config
    scanResults,                   \* tbl_scan_results
    scanLog,                       \* tbl_scan_log
    scanCorrelationResults,        \* tbl_scan_correlation_results
    scanCorrelationResultsEvents,  \* tbl_scan_correlation_results_events
    tblConfig,                     \* tbl_config
    config,                        \* state.config, the effective configuration
    modules,                       \* cfg['__modules__'], the module registry
    spawned,                       \* scan processes started by the web process
    waited,                        \* seconds startscan has slept waiting for its scan
    dbhLock,                       \* SpiderFootDb.dbhLock: the thread that holds it
    call,                          \* the DAL call each thread of the process is in
    usedIds,                       \* scan ids generated so far
    last,                          \* the request handled by the latest step and its answer
    pre                            \* the store as that request found it

storeVars == <<scanInstance, scanConfig, scanResults, scanLog,
               scanCorrelationResults, scanCorrelationResultsEvents>>
cfgVars == <<tblConfig, config>>
lockVars == <<dbhLock, call>>
modVars == <<modules, spawned, waited, lockVars>>
vars == <<scanInstance, scanConfig, scanResults, scanLog,
          scanCorrelationResults, scanCorrelationResultsEvents,
          tblConfig, config, modules, spawned, waited, dbhLock, call,
          usedIds, last, pre>>

(***************************************************************************)
(* Bounds                                                                  *)
(***************************************************************************)
MaxIdTokens == 2      \* tokens of a comma-separated id list
MaxResultIds == 2     \* finding ids in one resultsetfp request
MaxModList == 3       \* names in an explicit module list

(***************************************************************************)
(* Identifiers                                                             *)
(***************************************************************************)
ScanIds == {"s1", "s2"}            \* ids the scan engine may create
UnknownScanId == "s9"              \* an id that is never in the store
Blank == ""                        \* a token that is empty after strip()
ROOT == "ROOT"

\* The threads of the web process that call the DAL: the event loop, which
\* runs the async handlers, and a worker of the thread pool.
Threads == {"loop", "worker"}
\* dbhLock when no thread holds it.
Unlocked == "nobody"
\* A thread that is in no DAL call.
NoCall == [op |-> "none", pc |-> 0, stmts |-> 0, arg |-> ""]

Statuses == {"CREATED", "STARTING", "STARTED", "RUNNING", "ABORT-REQUESTED",
             "ABORTED", "FINISHED", "ERROR-FAILED"}

\* `last` after a step that is not a request of the web tier
NoAnswer == [op |-> "none", status |-> 0, body |-> "", args |-> <<>>]

Answer(op, status, body, args) ==
    [op |-> op, status |-> status, body |-> body, args |-> args]

\* No request is being answered: the next request, or a step of the scan
\* engine, can take place.
Idle == last.op = "none"

(***************************************************************************)
(* Sequence helpers                                                        *)
(***************************************************************************)
Range(s) == {s[i] : i \in 1..Len(s)}

SeqsUpTo(S, n) == UNION {[1..k -> S] : k \in 0..n}

\* [x for x in s if P(x)] for a token list: Python's list comprehension
NonBlank(s) == SelectSeq(s, LAMBDA t : t # Blank)

(***************************************************************************)
(* Database Access Layer: scan instances                                   *)
(***************************************************************************)
Now == 1              \* time.time(), in whole seconds, of every write

\* SpiderFootDb.scanInstanceCreate: status CREATED, created = now in ms,
\* started and ended take the column default 0.
scanInstanceCreate(tbl, instanceId) ==
    tbl \cup {[guid |-> instanceId, status |-> "CREATED",
                        created |-> Now * 1000, started |-> 0, ended |-> 0]}

\* SpiderFootDb.scanInstanceSet: update of the supplied fields of the rows
\* whose guid is instanceId; an argument that is None is -1 here.
scanInstanceSet(tbl, instanceId, started, ended, status) ==
    {IF r.guid = instanceId
       THEN [r EXCEPT !.started = IF started # -1 THEN started ELSE @,
                      !.ended = IF ended # -1 THEN ended ELSE @,
                      !.status = IF status # "None" THEN status ELSE @]
       ELSE r : r \in tbl}

\* SpiderFootDb.scanInstanceGet: the rows (none or one) of the id, with the
\* three timestamps converted back to whole seconds.
scanInstanceGet(instanceId) ==
    {[status |-> r.status, created |-> r.created \div 1000,
      started |-> r.started \div 1000, ended |-> r.ended \div 1000] :
        r \in {x \in scanInstance : x.guid = instanceId}}

\* The tables of the store and the effective configuration, as one value.
Db == [cfg |-> scanConfig, res |-> scanResults, log |-> scanLog,
       inst |-> scanInstance, corr |-> scanCorrelationResults,
       corrEv |-> scanCorrelationResultsEvents,
       opts |-> tblConfig, conf |-> config, spawned |-> spawned]

NoPre == [cfg |-> {}, res |-> {}, log |-> {}, inst |-> {}, corr |-> {},
          corrEv |-> {}, opts |-> {}, conf |-> <<>>, spawned |-> {}]

\* scanInstanceDelete without the statement on tbl_scan_log.
scanInstanceDelete_KeepLog(db, instanceId) ==
    [db EXCEPT !.cfg = {r \in @ : r.scan_instance_id # instanceId},
               !.res = {r \in @ : r.scan_instance_id # instanceId},
               !.inst = {r \in @ : r.guid # instanceId}]

\* SpiderFootDb.scanInstanceDelete: deletes the config rows, the result
\* rows, the log rows and the instance row of the id, and commits.  It
\* issues no statement on tbl_scan_correlation_results or on
\* tbl_scan_correlation_results_events.
scanInstanceDelete(db, instanceId) ==
    [db EXCEPT !.cfg = {r \in @ : r.scan_instance_id # instanceId},
               !.res = {r \in @ : r.scan_instance_id # instanceId},
               !.log = {r \in @ : r.scan_instance_id # instanceId},
               !.inst = {r \in @ : r.guid # instanceId}]

(***************************************************************************)
(* JSON API router: scandelete                                             *)
(***************************************************************************)
\* The id lists of the requests: up to MaxIdTokens ids, the blank string,
\* and the string "," whose tokens are all blank.
Tokens == ScanIds \cup {UnknownScanId}
IdLists == (SeqsUpTo(Tokens, MaxIdTokens) \ {<<>>})
             \cup {<<Blank>>, <<Blank, Blank>>}

Min(S) == CHOOSE x \in S : \A y \in S : x <= y

StatusOf(instanceId) == (CHOOSE r \in scanInstanceGet(instanceId) : TRUE).status

\* scandelete, step 2: the first id of the list that is unknown (404) or
\* whose status is RUNNING, STARTING or STARTED (400) ends the request.
scandelete_PreCheck(ids) ==
    LET bad == {i \in 1..Len(ids) :
                  \/ scanInstanceGet(ids[i]) = {}
                  \/ StatusOf(ids[i]) \in {"RUNNING", "STARTING", "STARTED"}}
    IN  IF bad = {} THEN 200
        ELSE IF scanInstanceGet(ids[Min(bad)]) = {} THEN 404 ELSE 400

\* scandelete, step 3: scanInstanceDelete for every id, in list order.
RECURSIVE scandelete_Execute(_, _)
scandelete_Execute(db, ids) ==
    IF ids = <<>> THEN db
    ELSE scandelete_Execute(scanInstanceDelete(db, Head(ids)), Tail(ids))

\* GET /api/scandelete?id=...  toks is the id string split at the commas,
\* each token stripped.
scandelete(toks) ==
    LET ids == NonBlank(toks)
        code == scandelete_PreCheck(ids)
        db == scandelete_Execute(Db, ids)
    IN  /\ Idle
        /\ pre' = Db
        /\ IF toks = <<Blank>>
             THEN /\ last' = Answer("scandelete", 404, "No scan specified.", toks)
                  /\ UNCHANGED storeVars
           ELSE IF code # 200
             THEN /\ last' = Answer("scandelete", code, "error", toks)
                  /\ UNCHANGED storeVars
           ELSE /\ scanConfig' = db.cfg
                /\ scanResults' = db.res
                /\ scanLog' = db.log
                /\ scanInstance' = db.inst
                /\ scanCorrelationResults' = db.corr
                /\ scanCorrelationResultsEvents' = db.corrEv
                /\ last' = Answer("scandelete", 200, "success", toks)
        /\ UNCHANGED <<cfgVars, modVars, usedIds>>

(***************************************************************************)
(* JSON API router: stopscan                                               *)
(***************************************************************************)
\* stopscan's pre-check with STARTED let through as well.
stopscan_PreCheck_Started(ids) ==
    LET bad == {i \in 1..Len(ids) :
                  \/ scanInstanceGet(ids[i]) = {}
                  \/ StatusOf(ids[i]) \notin {"RUNNING", "STARTING", "STARTED"}}
    IN  IF bad = {} THEN 200
        ELSE IF scanInstanceGet(ids[Min(bad)]) = {} THEN 404 ELSE 400

\* stopscan, step 2: 404 for the first unknown id, 400 for the first id
\* whose status is FINISHED, ABORTED or anything but RUNNING / STARTING.
stopscan_PreCheck(ids) ==
    LET bad == {i \in 1..Len(ids) :
                  \/ scanInstanceGet(ids[i]) = {}
                  \/ StatusOf(ids[i]) = "FINISHED"
                  \/ StatusOf(ids[i]) = "ABORTED"
                  \/ StatusOf(ids[i]) \notin {"RUNNING", "STARTING"}}
    IN  IF bad = {} THEN 200
        ELSE IF scanInstanceGet(ids[Min(bad)]) = {} THEN 404 ELSE 400

\* stopscan, step 3: scanInstanceSet(scan_id, status="ABORT-REQUESTED")
\* for every id, in list order.
RECURSIVE stopscan_Execute(_, _)
stopscan_Execute(inst, ids) ==
    IF ids = <<>> THEN inst
    ELSE stopscan_Execute(
           scanInstanceSet(inst, Head(ids), -1, -1, "ABORT-REQUESTED"),
           Tail(ids))

\* GET /api/stopscan?id=...
stopscan(toks) ==
    LET ids == NonBlank(toks)
        code == stopscan_PreCheck(ids)
    IN  /\ Idle
        /\ pre' = Db
        /\ IF toks = <<Blank>>
             THEN /\ last' = Answer("stopscan", 404, "No scan specified.", toks)
                  /\ UNCHANGED scanInstance
           ELSE IF code # 200
             THEN /\ last' = Answer("stopscan", code, "error", toks)
                  /\ UNCHANGED scanInstance
           ELSE /\ scanInstance' = stopscan_Execute(scanInstance, ids)
                /\ last' = Answer("stopscan", 200, "success", toks)
        /\ UNCHANGED <<scanConfig, scanResults, scanLog, scanCorrelationResults,
                       scanCorrelationResultsEvents, cfgVars, modVars, usedIds>>

(***************************************************************************)
(* The scan engine (a child process with its own store connection): it     *)
(* creates the scan instance and its configuration, moves the status       *)
(* along, stores findings, log rows and correlation results.               *)
(***************************************************************************)
\* The status moves the engine makes (section 4.3 of the design: CREATED,
\* STARTING/STARTED, RUNNING, then FINISHED, ABORTED or ERROR-FAILED; an
\* ABORT-REQUESTED scan is ABORTED by the engine).
EngineMoves(status) ==
    CASE status = "CREATED" -> {"STARTING", "STARTED"}
      [] status = "STARTING" -> {"STARTED", "RUNNING"}
      [] status = "STARTED" -> {"RUNNING"}
      [] status = "RUNNING" -> {"FINISHED", "ABORTED", "ERROR-FAILED"}
      [] status = "ABORT-REQUESTED" -> {"ABORTED"}
      [] OTHER -> {}

\* stopscan or scandelete has made its pre-check and not yet its writes.
Checked == last.status = 0 /\ last.op \in {"stopscan", "scandelete"}

\* A step of the engine is not a request: it happens between requests, and
\* between the pre-check and the writes of a request, which no lock or
\* transaction of the store holds together.
EngineStep == (Idle \/ Checked) /\ UNCHANGED <<last, pre>>

Terminal == {"FINISHED", "ABORTED", "ERROR-FAILED"}
Active == {"RUNNING", "ABORT-REQUESTED"}

\* SpiderFootDb.scanConfigSet: one row per option of the map.
scanConfigSet(tbl, scan_id, opt, val) ==
    {r \in tbl : ~(r.scan_instance_id = scan_id /\ r.opt = opt)}
      \cup {[scan_instance_id |-> scan_id, component |-> "GLOBAL",
             opt |-> opt, val |-> val]}

\* SpiderFootDb.scanEventStore, the insert: false_positive takes the column
\* default 0.
scanEventStore(tbl, instanceId, hash, type, sourceEventHash) ==
    tbl \cup {[scan_instance_id |-> instanceId, hash |-> hash, type |-> type,
               source_event_hash |-> sourceEventHash, false_positive |-> 0]}

\* SpiderFootDb.scanLogEvent: one more log row, generated in ms.
scanLogEvent(tbl, instanceId, generated, type) ==
    tbl \cup {[scan_instance_id |-> instanceId, generated |-> generated * 1000,
               type |-> type]}

\* The engine starts a scan under a fresh id: scanInstanceCreate and
\* scanConfigSet.
EngineCreate(s) ==
    /\ s \notin usedIds
    /\ usedIds' = usedIds \cup {s}
    /\ scanInstance' = scanInstanceCreate(scanInstance, s)
    /\ scanConfig' = scanConfigSet(scanConfig, s, "_modulesenabled", "sfp__stor_db")
    /\ UNCHANGED <<scanResults, scanLog, scanCorrelationResults,
                   scanCorrelationResultsEvents, cfgVars, modVars>>
    /\ EngineStep

\* The engine moves the status of its scan and logs the move:
\* scanInstanceSet, with the start time when it leaves CREATED and the end
\* time when it ends, and scanLogEvent.
EngineSetStatus(s) ==
    /\ scanInstanceGet(s) # {}
    /\ \E st \in EngineMoves(StatusOf(s)) :
         scanInstance' =
           scanInstanceSet(scanInstance, s,
                           IF StatusOf(s) = "CREATED" THEN Now * 1000 ELSE -1,
                           IF st \in Terminal THEN Now * 1000 ELSE -1,
                           st)
    /\ scanLog' = scanLogEvent(scanLog, s, Now, "STATUS")
    /\ UNCHANGED <<scanConfig, scanResults, scanCorrelationResults,
                   scanCorrelationResultsEvents, cfgVars, modVars, usedIds>>
    /\ EngineStep

EngineHashes == {"a", "b"}    \* the non-ROOT findings the engine stores here

\* The engine stores a finding while the scan runs: the ROOT finding
\* first, then findings whose source is a stored finding.
EngineStoreEvent(s) ==
    /\ scanInstanceGet(s) # {}
    /\ StatusOf(s) \in Active
    /\ LET mine == {r \in scanResults : r.scan_instance_id = s}
       IN  IF mine = {}
             THEN scanResults' = scanEventStore(scanResults, s, ROOT, "ROOT", ROOT)
             ELSE \E h \in EngineHashes, src \in mine :
                    /\ h \notin {r.hash : r \in mine}
                    /\ scanResults' =
                         scanEventStore(scanResults, s, h, "IP_ADDRESS", src.hash)
    /\ UNCHANGED <<scanInstance, scanConfig, scanLog, scanCorrelationResults,
                   scanCorrelationResultsEvents, cfgVars, modVars, usedIds>>
    /\ EngineStep

\* SpiderFootDb.correlationResultCreate: the result row, then one join row
\* per event hash, under a generated id.
correlationResultCreate(instanceId, correlationId, eventHashes) ==
    [results |-> scanCorrelationResults
                   \cup {[id |-> correlationId, scan_instance_id |-> instanceId]},
     events |-> scanCorrelationResultsEvents
                   \cup {[correlation_id |-> correlationId, event_hash |-> h] :
                           h \in eventHashes}]

\* The engine's correlation pass stores one result over the scan's findings.
EngineCorrelate(s) ==
    /\ scanInstanceGet(s) # {}
    /\ StatusOf(s) = "RUNNING"
    /\ LET mine == {r.hash : r \in {x \in scanResults : x.scan_instance_id = s}}
           cid == <<"corr", s>>
           out == correlationResultCreate(s, cid, mine)
       IN  /\ mine \ {ROOT} # {}
           /\ cid \notin {r.id : r \in scanCorrelationResults}
           /\ scanCorrelationResults' = out.results
           /\ scanCorrelationResultsEvents' = out.events
    /\ UNCHANGED <<scanInstance, scanConfig, scanResults, scanLog, cfgVars,
                   modVars, usedIds>>
    /\ EngineStep

\* The answer of the request has been sent: the handler is done.
Respond ==
    /\ ~Idle
    /\ last.status # 0
    /\ last' = NoAnswer
    /\ pre' = NoPre
    /\ UNCHANGED <<storeVars, cfgVars, modVars, usedIds>>

(***************************************************************************)
(* The scan store: engine and scandelete / stopscan requests               *)
(***************************************************************************)
\* AppState.defaultConfig, a copy of the hard-coded defaults (SF_CONFIG):
\* options the settings page saves and one system option (two leading
\* underscores).
defaultConfig ==
    ("_debug" :> FALSE) @@ ("_dnsserver" :> "") @@ ("_fetchtimeout" :> 5)
      @@ ("__logging" :> TRUE)

\* AppState.__init__ on a store without persisted settings; no scan
\* process has been started.
InitSettings ==
    /\ tblConfig = {}
    /\ config = defaultConfig
    /\ spawned = {}
    /\ waited = 0
    /\ dbhLock = Unlocked
    /\ call = [t \in Threads |-> NoCall]

InitScan ==
    /\ scanInstance = {}
    /\ scanConfig = {}
    /\ scanResults = {}
    /\ scanLog = {}
    /\ scanCorrelationResults = {}
    /\ scanCorrelationResultsEvents = {}
    /\ usedIds = {}
    /\ last = NoAnswer
    /\ pre = NoPre
    /\ modules = <<>>
    /\ InitSettings

NextScan ==
    \/ \E s \in ScanIds : EngineCreate(s)
    \/ \E s \in ScanIds : EngineSetStatus(s)
    \/ \E s \in ScanIds : EngineStoreEvent(s)
    \/ \E s \in ScanIds : EngineCorrelate(s)
    \/ \E toks \in IdLists : scandelete(toks)
    \/ \E toks \in IdLists : stopscan(toks)
    \/ Respond

SpecScan == InitScan /\ [][NextScan]_vars

(***************************************************************************)
(* Claims on scandelete and stopscan                                       *)
(***************************************************************************)
Named(toks) == Range(NonBlank(toks))

RowsOf(tbl, S) == {r \in tbl : r.scan_instance_id \in S}

PreStatus(id) == (CHOOSE r \in pre.inst : r.guid = id).status

PreUnknown(id) == \A r \in pre.inst : r.guid # id

\* C1: scandelete on an id list deletes nothing and answers 400 when a
\* named scan is RUNNING, STARTING or STARTED (404 when a named id is
\* unknown); otherwise, when it returns, no row of the scan-config,
\* scan-results, scan-log or scan-instance tables carries a named id and
\* every row of every other scan is as it was.
C1_ScanDeleteSafe ==
    last.op = "scandelete" =>
      LET named == Named(last.args)
          running == {id \in named : ~PreUnknown(id) /\
                        PreStatus(id) \in {"RUNNING", "STARTING", "STARTED"}}
          unknown == {id \in named : PreUnknown(id)}
      IN  IF running # {} \/ unknown # {}
            THEN /\ Db = pre
                 /\ last.status \in {400, 404}
                 /\ unknown = {} => last.status = 400
                 /\ running = {} => last.status = 404
            ELSE /\ RowsOf(scanConfig, named) = {}
                 /\ RowsOf(scanResults, named) = {}
                 /\ RowsOf(scanLog, named) = {}
                 /\ \A r \in scanInstance : r.guid \notin named
                 /\ scanConfig = pre.cfg \ RowsOf(pre.cfg, named)
                 /\ scanResults = pre.res \ RowsOf(pre.res, named)
                 /\ scanLog = pre.log \ RowsOf(pre.log, named)
                 /\ scanInstance = {r \in pre.inst : r.guid \notin named}

\* A finished scan with findings, log rows and configuration was deleted
\* while another scan, with rows of its own in every table, stays.
C1_Witness ==
    /\ last.op = "scandelete" /\ last.status = 200
    /\ \E id \in Named(last.args) :
         /\ PreStatus(id) = "FINISHED"
         /\ RowsOf(pre.res, {id}) # {} /\ RowsOf(pre.log, {id}) # {}
         /\ RowsOf(pre.cfg, {id}) # {}
    /\ \E r \in scanInstance :
         /\ RowsOf(scanResults, {r.guid}) # {}
         /\ RowsOf(scanLog, {r.guid}) # {}
         /\ RowsOf(scanConfig, {r.guid}) # {}

\* C5: stopscan on an id list changes no status and answers 404 when a
\* named scan is unknown, 400 when a named scan is not RUNNING or STARTING;
\* otherwise every named scan becomes ABORT-REQUESTED and nothing else
\* (timestamps, other scans, findings) changes.
C5_StopScanSafe ==
    last.op = "stopscan" =>
      LET named == Named(last.args)
          wrong == {id \in named : ~PreUnknown(id) /\
                      PreStatus(id) \notin {"RUNNING", "STARTING"}}
          unknown == {id \in named : PreUnknown(id)}
      IN  IF wrong # {} \/ unknown # {}
            THEN /\ Db = pre
                 /\ last.status \in {400, 404}
                 /\ unknown = {} => last.status = 400
                 /\ wrong = {} => last.status = 404
            ELSE /\ Db = [pre EXCEPT !.inst =
                            {IF r.guid \in named
                               THEN [r EXCEPT !.status = "ABORT-REQUESTED"]
                               ELSE r : r \in pre.inst}]
                 /\ last.args # <<Blank>> => last.status = 200

\* Two scans, one RUNNING and one STARTING, were stopped by one request.
C5_Witness ==
    /\ last.op = "stopscan" /\ last.status = 200
    /\ {PreStatus(id) : id \in Named(last.args)} = {"RUNNING", "STARTING"}
    /\ \A id \in Named(last.args) :
         \E r \in scanInstance : /\ r.guid = id
                                 /\ r.status = "ABORT-REQUESTED"
                                 /\ r.started # 0

\* C6: once scandelete has deleted a scan, no ScanConfig, ScanResults,
\* ScanLog or ScanCorrelationResults row references that scan's id.
C6_DeleteCascades ==
    (last.op = "scandelete" /\ last.status = 200) =>
      LET named == Named(last.args)
      IN  /\ RowsOf(scanConfig, named) = {}
          /\ RowsOf(scanResults, named) = {}
          /\ RowsOf(scanLog, named) = {}
          /\ RowsOf(scanCorrelationResults, named) = {}


(***************************************************************************)
(* False positives: the lineage queries and resultsetfp                    *)
(***************************************************************************)
FpScan == "s1"                     \* the scan whose findings are flagged
FpOther == "s2"                    \* another scan, with the same hashes
FpHashes == <<"a", "b", "c", "d", "e">>
NotAlnum == "-"                    \* an id token str.isalnum() rejects

HashAt(i) == IF i = 0 THEN ROOT ELSE FpHashes[i]

\* The lineages of a scan's findings: each finding is stored after its
\* source, the first finding of a scan is ROOT, its own source.  The
\* hashes are named in the order of their sources, which leaves every
\* shape of lineage.
Lineages ==
    {p \in [1..Len(FpHashes) -> 0..(Len(FpHashes) - 1)] :
       /\ \A i \in 1..Len(FpHashes) : p[i] < i
       /\ \A i \in 1..(Len(FpHashes) - 1) : p[i] <= p[i + 1]}

RECURSIVE StoreLineage(_, _, _, _)
StoreLineage(tbl, instanceId, p, n) ==
    IF n = 0
      THEN scanEventStore(tbl, instanceId, ROOT, "ROOT", ROOT)
      ELSE scanEventStore(StoreLineage(tbl, instanceId, p, n - 1), instanceId,
                          FpHashes[n], "IP_ADDRESS", HashAt(p[n]))

\* The id filter of both direct queries: empty and non-alphanumeric ids are
\* skipped.
HashIds(elementIdList) ==
    {h \in elementIdList : h # Blank /\ h # NotAlnum}

\* WHERE c.scan_instance_id = :instance_id of the direct queries.
OfScan(tbl, instanceId) == {c \in tbl : c.scan_instance_id = instanceId}

\* The self-join of the direct queries: each row c of cs with the row s of
\* its scan whose hash is c's source; a row without such a row is dropped.
\* (scan_instance_id, hash) is the primary key: s is one row at most.
Joined(tbl, cs) ==
    {[hash |-> c.hash, source_event_hash |-> c.source_event_hash,
      fp |-> c.false_positive,
      parent_fp |-> (CHOOSE s \in tbl :
                       /\ s.hash = c.source_event_hash
                       /\ s.scan_instance_id = c.scan_instance_id).false_positive] :
       c \in {x \in cs : \E s \in tbl :
                          /\ s.hash = x.source_event_hash
                          /\ s.scan_instance_id = x.scan_instance_id}}

\* SpiderFootDb.scanElementSourcesDirect, mistaken for the children query:
\* the IN clause is on the source's hash.
scanElementSourcesDirect_BySource(tbl, instanceId, elementIdList) ==
    LET hashIds == HashIds(elementIdList)
    IN  IF hashIds = {}
          THEN {}
          ELSE Joined(tbl, {c \in OfScan(tbl, instanceId) :
                                c.source_event_hash \in hashIds})

\* SpiderFootDb.scanElementSourcesDirect: the rows c of the scan whose hash
\* is asked for, each joined with its source row s of the same scan.
scanElementSourcesDirect(tbl, instanceId, elementIdList) ==
    LET hashIds == HashIds(elementIdList)
    IN  IF hashIds = {}
          THEN {}
          ELSE Joined(tbl, {c \in OfScan(tbl, instanceId) :
                                c.hash \in hashIds})

\* SpiderFootDb.scanElementChildrenDirect: the rows c of the scan whose
\* source row s, of the same scan, has a hash that is asked for.  No early
\* return: an empty IN list selects nothing.
scanElementChildrenDirect(tbl, instanceId, elementIdList) ==
    LET hashIds == HashIds(elementIdList)
    IN  Joined(tbl, {c \in OfScan(tbl, instanceId) :
                       c.source_event_hash \in hashIds})


\* SpiderFootDb.scanElementChildrenAll, the loop: each round asks for the
\* children of nextIds, which the round before left holding the hash of
\* its last row only; the rows come in any order.  A result is the set of
\* hashes in datamap when a round finds no row; rounds that never find
\* none give no result (done is FALSE).
RECURSIVE scanElementChildrenAll_Loop(_, _, _, _, _)
scanElementChildrenAll_Loop(tbl, instanceId, nextIds, datamap, rounds) ==
    LET nextSet ==
          {r.hash : r \in scanElementChildrenDirect(tbl, instanceId, nextIds)}
    IN  IF nextSet = {}
          THEN {[done |-> TRUE, childs |-> datamap]}
          ELSE IF rounds = 0
                 THEN {[done |-> FALSE, childs |-> {}]}
                 ELSE UNION {scanElementChildrenAll_Loop(
                               tbl, instanceId, {lastRow},
                               datamap \cup nextSet, rounds - 1) :
                             lastRow \in nextSet}

\* SpiderFootDb.scanElementChildrenAll: the direct children first, all of
\* them the first nextIds.  A walk of more rounds than there are rows has
\* asked for the same hash twice, and can do so for ever.
scanElementChildrenAll(tbl, instanceId, parentIds) ==
    LET nextSet ==
          {r.hash : r \in scanElementChildrenDirect(tbl, instanceId, parentIds)}
    IN  scanElementChildrenAll_Loop(tbl, instanceId, nextSet, nextSet,
                                    Cardinality(tbl) + 1)

\* The flag as the integer column stores the request's "0" or "1".
FpFlag(fp) == IF fp = "1" THEN 1 ELSE 0

\* SpiderFootDb.scanResultsUpdateFP: one UPDATE per hash, on the rows of
\* the scan.
scanResultsUpdateFP(tbl, instanceId, resultHashes, fpFlag) ==
    {IF r.scan_instance_id = instanceId /\ r.hash \in resultHashes
       THEN [r EXCEPT !.false_positive = fpFlag]
       ELSE r : r \in tbl}

\* resultids as the request carries it: the JSON text of a list of ids, or
\* a text json.loads does not turn into a list.
FpTokens == Range(FpHashes) \cup {ROOT, NotAlnum}
IdSets == {S \in SUBSET FpTokens : Cardinality(S) <= MaxResultIds}
JsonList(ids) == [list |-> TRUE, ids |-> ids]
NotAList == [list |-> FALSE, ids |-> {}]

\* The status check of resultsetfp, with ABORT-REQUESTED let through.
resultsetfp_Finished_AbortRequested(status) ==
    status \in {"ABORTED", "FINISHED", "ERROR-FAILED", "ABORT-REQUESTED"}

\* The status check of resultsetfp.
resultsetfp_Finished(status) ==
    status \in {"ABORTED", "FINISHED", "ERROR-FAILED"}

\* The flags resultsetfp accepts, with "2" among them.
resultsetfp_Flags_Two == {"0", "1", "2"}
\* The flags resultsetfp accepts.
resultsetfp_Flags == {"0", "1"}

\* POST /resultsetfp.
resultsetfp(id, resultids, fp) ==
    LET args == <<id, resultids, fp>>
        ids == resultids.ids
        answer(status, body) == Answer("resultsetfp", status, body, args)
    IN  /\ Idle
        /\ pre' = Db
        /\ UNCHANGED <<scanInstance, scanConfig, scanLog, scanCorrelationResults,
                       scanCorrelationResultsEvents, cfgVars, modVars, usedIds>>
        /\ IF fp \notin resultsetfp_Flags
             THEN last' = answer(400, "ERROR") /\ UNCHANGED scanResults
           ELSE IF ~resultids.list
             THEN last' = answer(400, "ERROR") /\ UNCHANGED scanResults
           ELSE IF scanInstanceGet(id) = {}
             THEN last' = answer(404, "ERROR") /\ UNCHANGED scanResults
           ELSE IF ~resultsetfp_Finished(StatusOf(id))
             THEN last' = answer(200, "WARNING") /\ UNCHANGED scanResults
           ELSE IF /\ fp = "0"
                   /\ \E row \in scanElementSourcesDirect(scanResults, id, ids) :
                        row.parent_fp = 1
             THEN last' = answer(200, "WARNING") /\ UNCHANGED scanResults
           ELSE \E out \in scanElementChildrenAll(scanResults, id, ids) :
                  IF out.done
                    THEN /\ scanResults' =
                              scanResultsUpdateFP(scanResults, id,
                                                  ids \cup out.childs, FpFlag(fp))
                         /\ last' = answer(200, "SUCCESS")
                    ELSE /\ last' = answer(0, "HANG")
                         /\ UNCHANGED scanResults

\* The requests made: every list of ids with either flag on the scan, and
\* one request for each way of being turned down before the scan is read.
FpRequests ==
    {[id |-> FpScan, resultids |-> JsonList(S), fp |-> f] :
       S \in IdSets, f \in {"0", "1"}}
      \cup {[id |-> FpScan, resultids |-> JsonList({FpHashes[1]}), fp |-> "2"],
            [id |-> FpScan, resultids |-> NotAList, fp |-> "1"],
            [id |-> UnknownScanId, resultids |-> JsonList({FpHashes[1]}),
             fp |-> "1"]}

\* A scan in any status with its findings stored, none flagged, and a
\* finished scan with findings of the same hashes.
InitFp ==
    /\ \E st \in Statuses :
         scanInstance =
           scanInstanceSet(
             scanInstanceSet(
               scanInstanceCreate(scanInstanceCreate({}, FpScan), FpOther),
               FpOther, Now * 1000, Now * 1000, "FINISHED"),
             FpScan,
             IF st = "CREATED" THEN -1 ELSE Now * 1000,
             IF st \in Terminal THEN Now * 1000 ELSE -1,
             st)
    /\ \E p \in Lineages :
         scanResults =
           StoreLineage(StoreLineage({}, FpOther, p, 1),
                        FpScan, p, Len(FpHashes))
    /\ scanConfig = {}
    /\ scanLog = {}
    /\ scanCorrelationResults = {}
    /\ scanCorrelationResultsEvents = {}
    /\ usedIds = {FpScan, FpOther}
    /\ last = NoAnswer
    /\ pre = NoPre
    /\ modules = <<>>
    /\ InitSettings

NextFp ==
    \/ \E q \in FpRequests : resultsetfp(q.id, q.resultids, q.fp)
    \/ Respond

SpecFp == InitFp /\ [][NextFp]_vars


(***************************************************************************)
(* Claims on resultsetfp                                                   *)
(***************************************************************************)
FpId == last.args[1]
FpIds == last.args[2].ids
FpArg == last.args[3]

\* The findings of a scan that descend from the findings S, those of S
\* included: the least set that holds S and every finding whose source it
\* holds.
RECURSIVE Descendants(_, _, _)
Descendants(tbl, instanceId, S) ==
    LET more == S \cup {r.hash : r \in {x \in tbl :
                                         /\ x.scan_instance_id = instanceId
                                         /\ x.source_event_hash \in S}}
    IN  IF more = S THEN S ELSE Descendants(tbl, instanceId, more)

\* C2: resultsetfp with fp="1" on a set of findings of a FINISHED scan sets
\* the flag of exactly the supplied findings and all their transitive
\* descendants to 1, and changes the flag of no other finding.
C2_FlagsAllDescendants ==
    (/\ last.op = "resultsetfp" /\ last.body = "SUCCESS"
     /\ FpArg = "1"
     /\ PreStatus(FpId) = "FINISHED"
     /\ FpIds \subseteq Range(FpHashes))
      => scanResults =
           {IF /\ r.scan_instance_id = FpId
               /\ r.hash \in Descendants(pre.res, FpId, FpIds)
              THEN [r EXCEPT !.false_positive = 1]
              ELSE r : r \in pre.res}

\* Some targeted finding of the request has a direct parent flagged 1.
FpParentFlagged ==
    \E c \in pre.res, s \in pre.res :
       /\ c.scan_instance_id = FpId /\ c.hash \in FpIds
       /\ s.scan_instance_id = FpId /\ s.hash = c.source_event_hash
       /\ s.false_positive = 1

\* C3: resultsetfp with fp="0" on findings of a finished scan, one of which
\* has a direct parent flagged 1, answers the soft WARNING and leaves the
\* flag of every finding as it was.
C3_UnsetUnderFlaggedParent ==
    (/\ last.op = "resultsetfp"
     /\ FpArg = "0" /\ last.args[2].list
     /\ ~PreUnknown(FpId)
     /\ PreStatus(FpId) \in {"ABORTED", "FINISHED", "ERROR-FAILED"}
     /\ FpParentFlagged)
      => /\ last.status = 200 /\ last.body = "WARNING"
         /\ scanResults = pre.res

\* The flag of a flagged leaf, flagged along with its parent by an earlier
\* request, was asked to be cleared and the request was turned down.
C3_Witness ==
    /\ last.op = "resultsetfp" /\ last.body = "WARNING"
    /\ FpArg = "0" /\ last.args[2].list
    /\ PreStatus(FpId) \in {"ABORTED", "FINISHED", "ERROR-FAILED"}
    /\ \E c \in pre.res, s \in pre.res :
         /\ c.scan_instance_id = FpId /\ FpIds = {c.hash}
         /\ s.scan_instance_id = FpId /\ s.hash = c.source_event_hash
         /\ s.hash # ROOT
         /\ s.false_positive = 1 /\ c.false_positive = 1
         /\ \A x \in pre.res : x.source_event_hash # c.hash

\* C4: resultsetfp changes a flag only when the scan exists and its status
\* is ABORTED, FINISHED or ERROR-FAILED; for an unknown scan it answers 404
\* and for a scan in another status the soft WARNING, no flag changed.
C4_OnlyFinishedScans ==
    last.op = "resultsetfp" =>
      /\ scanResults # pre.res =>
           /\ ~PreUnknown(FpId)
           /\ PreStatus(FpId) \in {"ABORTED", "FINISHED", "ERROR-FAILED"}
      /\ (FpArg \in {"0", "1"} /\ last.args[2].list) =>
           /\ PreUnknown(FpId) => last.status = 404 /\ Db = pre
           /\ (/\ ~PreUnknown(FpId)
               /\ PreStatus(FpId) \notin {"ABORTED", "FINISHED", "ERROR-FAILED"})
                => /\ last.status = 200 /\ last.body = "WARNING"
                   /\ Db = pre

\* A finding with descendants was asked to be flagged in a scan whose stop
\* was requested but which has not stopped: the request was turned down.
C4_Witness ==
    /\ last.op = "resultsetfp" /\ last.body = "WARNING"
    /\ FpArg = "1"
    /\ PreStatus(FpId) = "ABORT-REQUESTED"
    /\ \E h \in FpIds \cap Range(FpHashes) :
         Descendants(pre.res, FpId, {h}) # {h}
    /\ scanResults = pre.res


(***************************************************************************)
(* Settings: the persisted configuration, the effective configuration of   *)
(* the web process and savesettings                                        *)
(***************************************************************************)
SystemOpts == {"__logging"}        \* opt.startswith('__')
BoolOpts == {"_debug", "__logging"}
IntOpts == {"_fetchtimeout"}

\* Decimal texts and the integers they denote.
Numerals == {<<"0", 0>>, <<"1", 1>>, <<"5", 5>>, <<"10", 10>>}
IsNumeral(text) == \E n \in Numerals : n[1] = text
int(text) == (CHOOSE n \in Numerals : n[1] = text)[2]
str(number) == (CHOOSE n \in Numerals : n[2] = number)[1]

\* html.escape(item, True) followed by the two replacements, on the texts
\* in use: of these only "a<b" holds a character that is escaped.
clean_user_input(item) == IF item = "a<b" THEN "a&lt;b" ELSE item

\* SpiderFoot.configUnserialize(opts, referencePoint): every option of
\* referencePoint that is no system option and that opts names takes the
\* value of opts, converted to the type it has in referencePoint; int() of a
\* text that is no number raises.
configUnserialize(opts, referencePoint) ==
    LET named == (DOMAIN referencePoint \cap DOMAIN opts) \ SystemOpts
    IN  [ok |-> \A opt \in named \cap IntOpts : IsNumeral(opts[opt]),
         cfg |-> [opt \in DOMAIN referencePoint |->
                    IF opt \notin named THEN referencePoint[opt]
                    ELSE IF opt \in BoolOpts THEN opts[opt] = "1"
                    ELSE IF opt \in IntOpts
                      THEN IF IsNumeral(opts[opt]) THEN int(opts[opt]) ELSE 0
                    ELSE opts[opt]]]

\* SpiderFoot.configSerialize(opts), as the String column of tbl_config
\* keeps it: system options are left out, a boolean is 1 or 0, a number its
\* decimal text.
configSerialize(opts) ==
    [opt \in DOMAIN opts \ SystemOpts |->
       IF opt \in BoolOpts THEN (IF opts[opt] THEN "1" ELSE "0")
       ELSE IF opt \in IntOpts THEN str(opts[opt])
       ELSE opts[opt]]

\* Keys with a colon: the key, the first two parts of opt.split(":"), which
\* are the scope and the option of its row, and the text f"{scope}:{opt}".
ScopedKeys ==
    {<<"sfp_a:timeout", "sfp_a", "timeout", "sfp_a:timeout">>,
     <<"sfp_a:timeout:x", "sfp_a", "timeout", "sfp_a:timeout">>,
     <<"GLOBAL:_debug", "GLOBAL", "_debug", "GLOBAL:_debug">>}
ScopeOf(opt) ==
    IF \E k \in ScopedKeys : k[1] = opt
      THEN (CHOOSE k \in ScopedKeys : k[1] = opt)[2]
      ELSE "GLOBAL"
KeyOf(opt) ==
    IF \E k \in ScopedKeys : k[1] = opt
      THEN (CHOOSE k \in ScopedKeys : k[1] = opt)[3]
      ELSE opt

\* SpiderFootDb.configSet: one merge per option on the key (scope, opt).
configSet(tbl, optMap) ==
    {r \in tbl : \A opt \in DOMAIN optMap :
                   ~(r.scope = ScopeOf(opt) /\ r.opt = KeyOf(opt))}
      \cup {[scope |-> ScopeOf(opt), opt |-> KeyOf(opt), val |-> optMap[opt]] :
              opt \in DOMAIN optMap}

\* SpiderFootDb.configGet: the map of the rows, "scope:opt" the key of a
\* row whose scope is not GLOBAL.
configGet(tbl) ==
    LET name(r) == IF r.scope = "GLOBAL"
                     THEN r.opt
                     ELSE (CHOOSE k \in ScopedKeys :
                             k[2] = r.scope /\ k[3] = r.opt)[4]
    IN  [opt \in {name(r) : r \in tbl} |->
           (CHOOSE r \in tbl : name(r) = opt).val]

\* SpiderFootDb.configClear: every row deleted.
configClear(tbl) == {}


\* The names the two modules bind that their settings code uses: imports
\* and definitions.
api_router_Names ==
    {"time", "deepcopy", "mp", "json", "SpiderFoot", "startSpiderFootScanner",
     "SpiderFootDb", "SpiderFootHelpers", "state", "get_dbh", "logger",
     "searchBase", "clean_user_input", "jsonify_error", "html", "JSONResponse"}
main_crud_Names ==
    {"html", "time", "string", "openpyxl", "BytesIO", "StringIO",
     "JSONResponse", "deepcopy", "mp", "SpiderFootDb", "SF_CONFIG", "logger",
     "reset_settings"}

\* main_crud.reset_settings: configClear, then the assignment to
\* state.config; an exception of either (the store's, or the NameError of a
\* name the module does not bind) is logged and False returned.
reset_settings(tbl, cfg, storeFails) ==
    IF storeFails
      THEN [ok |-> FALSE, tbl |-> tbl, cfg |-> cfg]
      ELSE IF "state" \notin main_crud_Names
             THEN [ok |-> FALSE, tbl |-> configClear(tbl), cfg |-> cfg]
             ELSE [ok |-> TRUE, tbl |-> configClear(tbl), cfg |-> defaultConfig]

\* The option payloads of savesettings: the literal RESET, a text that is
\* no JSON, a JSON list, or a JSON object of texts.
EmptyOpts == [opt \in {} |-> ""]
RESET == [kind |-> "RESET", opts |-> EmptyOpts]
NotJson == [kind |-> "text", opts |-> EmptyOpts]
JsonArray == [kind |-> "list", opts |-> EmptyOpts]
JsonObject(opts) == [kind |-> "object", opts |-> opts]

OptValues ==
    ("_fetchtimeout" :> {"10", "x"}) @@ ("_dnsserver" :> {"8.8.8.8", "a<b"})
      @@ ("_debug" :> {"1", "0"})

OptMaps ==
    UNION {{f \in [D -> UNION {OptValues[o] : o \in D}] :
              \A o \in D : f[o] \in OptValues[o]} :
           D \in SUBSET DOMAIN OptValues}

\* The uploaded file: none, one whose bytes do not decode, or key=value
\* lines.
NoFile == [kind |-> "none", opts |-> EmptyOpts]
BadFile == [kind |-> "bad", opts |-> EmptyOpts]
KeyValueFile(opts) == [kind |-> "lines", opts |-> opts]


\* POST /api/savesettings.  storeFails: the store raises on the write of
\* this request.
savesettings(allopts, configFile, storeFails) ==
    LET args == <<allopts, configFile, storeFails>>
        answer(status, body) == Answer("savesettings", status, body, args)
        posted == IF configFile.kind = "lines"
                    THEN JsonObject(configFile.opts)
                    ELSE allopts
        cleanopts == [opt \in DOMAIN posted.opts |->
                        clean_user_input(posted.opts[opt])]
        new_config == configUnserialize(cleanopts, config)
        reset == reset_settings(tblConfig, config, storeFails)
    IN  /\ Idle
        /\ pre' = Db
        /\ UNCHANGED <<storeVars, modVars, usedIds>>
        /\ IF configFile.kind = "bad"
             THEN last' = answer(400, "Failed to parse input file.")
                  /\ UNCHANGED cfgVars
           ELSE IF posted.kind = "RESET"
             THEN IF "reset_settings" \notin api_router_Names
                    THEN /\ last' = answer(500, "Internal Server Error")
                         /\ UNCHANGED cfgVars
                    ELSE /\ tblConfig' = reset.tbl
                         /\ config' = reset.cfg
                         /\ last' = IF reset.ok
                                      THEN answer(303, "/opts?updated=1")
                                      ELSE answer(500, "Failed to reset settings.")
           ELSE IF posted.kind = "text"
             THEN last' = answer(400, "The 'allopts' data is not valid JSON.")
                  /\ UNCHANGED cfgVars
           ELSE IF posted.kind = "list" \/ ~new_config.ok \/ storeFails
             THEN last' = answer(500, "Processing one or more of your inputs failed")
                  /\ UNCHANGED cfgVars
           ELSE /\ tblConfig' = configSet(tblConfig, configSerialize(new_config.cfg))
                /\ UNCHANGED config
                /\ last' = answer(303, "/opts?updated=1")

\* The web process starts again: AppState.__init__ overlays the persisted
\* settings onto the defaults.
Restart ==
    /\ Idle
    /\ configUnserialize(configGet(tblConfig), defaultConfig).ok
    /\ config' = configUnserialize(configGet(tblConfig), defaultConfig).cfg
    /\ UNCHANGED <<storeVars, tblConfig, modVars, usedIds, last, pre>>

CfgRequests ==
    {[allopts |-> p, configFile |-> NoFile] :
       p \in {RESET, NotJson, JsonArray} \cup {JsonObject(f) : f \in OptMaps}}
      \cup {[allopts |-> RESET, configFile |-> f] :
              f \in {BadFile, KeyValueFile("_fetchtimeout" :> "10")}}

InitCfg ==
    /\ scanInstance = {}
    /\ scanConfig = {}
    /\ scanResults = {}
    /\ scanLog = {}
    /\ scanCorrelationResults = {}
    /\ scanCorrelationResultsEvents = {}
    /\ usedIds = {}
    /\ last = NoAnswer
    /\ pre = NoPre
    /\ modules = <<>>
    /\ InitSettings

NextCfg ==
    \/ \E q \in CfgRequests, storeFails \in BOOLEAN :
         savesettings(q.allopts, q.configFile, storeFails)
    \/ Restart
    \/ Respond

SpecCfg == InitCfg /\ [][NextCfg]_vars

(***************************************************************************)
(* Claims on savesettings                                                  *)
(***************************************************************************)
\* The options the payload of a savesettings request asks to set.
SavedOpts == last.args[1].opts

\* C7: after a savesettings request answered 303 whose payload sets a
\* global option to a value v, the effective configuration the request
\* handlers read yields v for that option.
C7_SavedOptionReadBack ==
    (last.op = "savesettings" /\ last.status = 303 /\ last.args[2] = NoFile) =>
      \A opt \in DOMAIN SavedOpts \cap (DOMAIN defaultConfig \ SystemOpts) :
         clean_user_input(SavedOpts[opt]) = SavedOpts[opt]
           => configSerialize(config)[opt] = SavedOpts[opt]

\* C8: a savesettings request with payload RESET either succeeds, and then
\* the persisted configuration is empty and the effective configuration is
\* the defaults, or the clearing of the persisted configuration failed, and
\* then it reports failure and the effective configuration is unchanged.
C8_ResetRestoresDefaults ==
    (/\ last.op = "savesettings"
     /\ last.args[1] = RESET /\ last.args[2] = NoFile)
      => IF last.args[3]
           THEN last.status = 500 /\ config = pre.conf
           ELSE /\ last.status = 303
                /\ tblConfig = {}
                /\ config = defaultConfig


(***************************************************************************)
(* Starting a scan: the module registry, module resolution and the spawn   *)
(***************************************************************************)
StorDb == "sfp__stor_db"
StorStdout == "sfp__stor_stdout"

\* The module names, in the order list.sort() gives them ('_' sorts before
\* the letters).
ModuleOrder == <<StorDb, StorStdout, "sfp_a", "sfp_b", "sfp_c">>
EventTypes == {"IP_ADDRESS", "DOMAIN_NAME", "EMAILADDR"}

\* One entry of cfg['__modules__'].
ModuleInfo(provides, consumes, group) ==
    [provides |-> provides, consumes |-> consumes, group |-> group]

\* The two storage modules produce nothing and consume every event.
StorageModules ==
    (StorDb :> ModuleInfo({}, {"*"}, {}))
      @@ (StorStdout :> ModuleInfo({}, {"*"}, {}))

\* Registries of three scan modules and the storage modules: a module
\* produces at most one event type and consumes at most one.
AtMostOne(S) == {T \in SUBSET S : Cardinality(T) <= 1}
Registries ==
    {StorageModules
       @@ ("sfp_a" :> ModuleInfo(pa, ca, {"passive"}))
       @@ ("sfp_b" :> ModuleInfo(pb, cb, {"footprint"}))
       @@ ("sfp_c" :> ModuleInfo(pc, cc, {"footprint"})) :
     pa \in AtMostOne(EventTypes), ca \in AtMostOne(EventTypes),
     pb \in AtMostOne(EventTypes), cb \in AtMostOne(EventTypes),
     pc \in AtMostOne(EventTypes), cc \in AtMostOne(EventTypes)}

\* SpiderFoot.modulesProducing(events): the modules that produce one of the
\* event types.
modulesProducing(reg, events) ==
    {mod \in DOMAIN reg : reg[mod].provides \cap events # {}}

\* SpiderFoot.eventsToModules(modules): the event types the modules
\* consume.
eventsToModules(reg, mods) ==
    UNION {reg[mod].consumes : mod \in mods \cap DOMAIN reg}

\* SpiderFootHelpers.targetTypeFromString: the type of a target, "None" for
\* a text that is no target.
targetTypeFromString(target) ==
    CASE target = "Example.com" -> "INTERNET_NAME"
      [] target = "\"John Doe\"" -> "HUMAN_NAME"
      [] OTHER -> "None"


\* The texts of a request, and what str.strip(), str.lower() and the
\* removal of the quotes and of the type_ prefix make of them.
Space == " "
strip(text) ==
    CASE text = Space -> ""
      [] text = " sfp_a " -> "sfp_a"
      [] OTHER -> text
lower(text) == IF text = "Example.com" THEN "example.com" ELSE text
Unquoted(text) == IF text = "\"John Doe\"" THEN "John Doe" ELSE text
Untyped(text) == IF text = "type_IP_ADDRESS" THEN "IP_ADDRESS" ELSE text

\* [m.strip() for m in modulelist.split(',') if m.strip()]
startscan_ModuleList(modulelist) ==
    LET kept == SelectSeq(modulelist, LAMBDA m : strip(m) # "")
    IN  [i \in 1..Len(kept) |-> strip(kept[i])]

\* The expansion, with an if where the code has its while: one round.
startscan_Expand_Once(reg, modlist, newmodcpy, rounds) ==
    [done |-> TRUE,
     modlist |-> modlist \cup
                   UNION {modulesProducing(reg, {etype}) :
                            etype \in eventsToModules(reg, newmodcpy)}]

\* The while loop of the typelist branch: each round adds the modules, not
\* yet in modlist, that produce an event type consumed by the modules the
\* round before added.  done: the loop ended within the given rounds.
RECURSIVE startscan_Expand(_, _, _, _)
startscan_Expand(reg, modlist, newmodcpy, rounds) ==
    IF newmodcpy = {}
      THEN [done |-> TRUE, modlist |-> modlist]
      ELSE IF rounds = 0
             THEN [done |-> FALSE, modlist |-> modlist]
             ELSE LET newmods ==
                        UNION {modulesProducing(reg, {etype}) :
                                 etype \in eventsToModules(reg, newmodcpy)}
                          \ modlist
                  IN  startscan_Expand(reg, modlist \cup newmods, newmods,
                                       rounds - 1)

\* The typelist branch: the producers of the listed types, expanded.  A
\* loop that adds a module in every round ends within as many rounds as
\* there are modules, and one more.
startscan_TypeList(reg, typelist) ==
    LET typesx == {Untyped(strip(t)) :
                     t \in {x \in Range(typelist) : strip(x) # ""}}
        modlist == modulesProducing(reg, typesx)
    IN  startscan_Expand(reg, modlist, modlist, Cardinality(DOMAIN reg) + 1)

\* The usecase branch: every module for "all", else the modules of the
\* group.
startscan_UseCase(reg, usecase) ==
    {mod \in DOMAIN reg : usecase = "all" \/ usecase \in reg[mod].group}

\* The modules of a set as a list.
ListOf(mods) == SelectSeq(ModuleOrder, LAMBDA m : m \in mods)

\* list.remove(x): the list without the first occurrence of x.
remove(list, x) ==
    LET first == Min({i \in 1..Len(list) : list[i] = x})
    IN  [i \in 1..(Len(list) - 1) |-> IF i < first THEN list[i] ELSE list[i + 1]]

\* list.sort() on module names.
RECURSIVE Repeat(_, _)
Repeat(x, n) == IF n = 0 THEN <<>> ELSE <<x>> \o Repeat(x, n - 1)
RECURSIVE sort_From(_, _)
sort_From(list, k) ==
    IF k > Len(ModuleOrder)
      THEN <<>>
      ELSE Repeat(ModuleOrder[k],
                  Cardinality({i \in 1..Len(list) : list[i] = ModuleOrder[k]}))
             \o sort_From(list, k + 1)
sort(list) == sort_From(list, 1)

\* Step 4 of startscan: sfp__stor_db appended if absent, sfp__stor_stdout
\* removed if present, the list sorted.
startscan_Cleanup(modlist) ==
    LET withDb == IF StorDb \notin Range(modlist)
                    THEN Append(modlist, StorDb)
                    ELSE modlist
        withoutStdout == IF StorStdout \in Range(withDb)
                           THEN remove(withDb, StorStdout)
                           ELSE withDb
    IN  sort(withoutStdout)


\* The module list before the cleanup: the explicit list, else the closure
\* of the type list, else the modules of the use case.
startscan_Resolve(reg, modulelist, typelist, usecase) ==
    IF modulelist # <<>>
      THEN [done |-> TRUE, modlist |-> startscan_ModuleList(modulelist)]
      ELSE IF typelist # <<>>
             THEN [done |-> startscan_TypeList(reg, typelist).done,
                   modlist |-> ListOf(startscan_TypeList(reg, typelist).modlist)]
             ELSE [done |-> TRUE,
                   modlist |-> IF usecase # ""
                                 THEN ListOf(startscan_UseCase(reg, usecase))
                                 ELSE <<>>]

\* The scan processes as threads that read the state.config of the web
\* process: every one of them has the configuration of the latest start.
startSpiderFootScanner_Process_SharedCfg(children, child) ==
    {[c EXCEPT !.cfg = child.cfg] : c \in children} \cup {child}
\* p = mp.Process(target=startSpiderFootScanner, args=(..., modlist, cfg));
\* p.start(): one more scan process, with the arguments as they are at the
\* start; the processes started before keep theirs.
startSpiderFootScanner_Process(children, child) == children \cup {child}

\* POST /api/startscan, up to the start of the scan process: the checks,
\* the module list, the snapshot of the configuration and the spawn.  The
\* handler then polls the store for the scan instance.  spawnFails: the
\* process cannot be started.
startscan(scanname, scantarget, modulelist, typelist, usecase, spawnFails) ==
    LET args == <<scanname, scantarget, modulelist, typelist, usecase, spawnFails>>
        answer(status, body) == Answer("startscan", status, body, args)
        scanname_cleaned == clean_user_input(scanname)
        scantarget_cleaned == clean_user_input(scantarget)
        targetType == targetTypeFromString(scantarget_cleaned)
        cfg == config
        resolved == startscan_Resolve(modules, modulelist, typelist, usecase)
        modlist == startscan_Cleanup(resolved.modlist)
        target == IF targetType \in {"HUMAN_NAME", "USERNAME", "BITCOIN_ADDRESS"}
                    THEN Unquoted(scantarget_cleaned)
                    ELSE lower(scantarget_cleaned)
        turnedDown(body) ==
            /\ last' = answer(400, body)
            /\ UNCHANGED <<spawned, waited, usedIds>>
    IN  /\ Idle
        /\ pre' = Db
        /\ UNCHANGED <<storeVars, cfgVars, modules, lockVars>>
        /\ IF scanname_cleaned = ""
             THEN turnedDown("Scan name was not specified.")
           ELSE IF scantarget_cleaned = ""
             THEN turnedDown("Scan target was not specified.")
           ELSE IF typelist = <<>> /\ modulelist = <<>> /\ usecase = ""
             THEN turnedDown("No modules specified for scan.")
           ELSE IF targetType = "None"
             THEN turnedDown("Invalid target type.")
           ELSE IF ~resolved.done
             THEN /\ last' = answer(0, "HANG")
                  /\ UNCHANGED <<spawned, waited, usedIds>>
           ELSE IF resolved.modlist = <<>>
             THEN turnedDown("No modules specified for scan.")
           ELSE \E scanId \in ScanIds \ usedIds :
                  /\ usedIds' = usedIds \cup {scanId}
                  /\ IF spawnFails
                       THEN /\ last' = answer(500, "Scan failed")
                            /\ UNCHANGED <<spawned, waited>>
                       ELSE /\ spawned' = startSpiderFootScanner_Process(
                                 spawned,
                                 [scanId |-> scanId, scanname |-> scanname_cleaned,
                                  scantarget |-> target, targetType |-> targetType,
                                  modlist |-> modlist, cfg |-> cfg])
                            /\ waited' = 0
                            /\ last' = answer(0, "POLLING")

\* The seconds startscan waits for the scan instance.
timeout == 10

\* The scan process the polling request has started.
Polled == CHOOSE child \in spawned \ pre.spawned : TRUE

\* startscan, the test of the polling loop: while the scan instance is not
\* in the store and fewer than timeout seconds have gone by, the handler
\* sleeps one second and tests again; otherwise it leaves the loop for its
\* final check, "CHECKING".
startscan_Loop ==
    /\ last.op = "startscan" /\ last.body = "POLLING"
    /\ IF scanInstanceGet(Polled.scanId) = {} /\ waited < timeout
         THEN /\ waited' = waited + 1
              /\ UNCHANGED last
         ELSE /\ last' = [last EXCEPT !.body = "CHECKING"]
              /\ UNCHANGED waited
    /\ UNCHANGED <<storeVars, cfgVars, modules, spawned, lockVars, usedIds, pre>>

\* startscan, the check after the loop, with the scan process terminated
\* when its instance is not in the store.
startscan_Poll_Terminates ==
    /\ last.op = "startscan" /\ last.body = "CHECKING"
    /\ IF scanInstanceGet(Polled.scanId) # {}
         THEN /\ last' = [last EXCEPT !.status = 200, !.body = Polled.scanId]
              /\ UNCHANGED spawned
         ELSE /\ last' = [last EXCEPT
                            !.status = 500,
                            !.body = "Scan failed to initialize within the timeout."]
              /\ spawned' = spawned \ {Polled}
    /\ waited' = 0
    /\ UNCHANGED <<storeVars, cfgVars, modules, lockVars, usedIds, pre>>
\* startscan, the check after the loop, which answers without looking at
\* the store.
startscan_Poll_NoFinalCheck ==
    /\ last.op = "startscan" /\ last.body = "CHECKING"
    /\ last' = [last EXCEPT !.status = 200, !.body = Polled.scanId]
    /\ waited' = 0
    /\ UNCHANGED <<storeVars, cfgVars, modules, spawned, lockVars, usedIds, pre>>
\* startscan, the check after the loop: the id of the scan when its
\* instance is in the store, the timeout error when it is not.
startscan_Poll ==
    /\ last.op = "startscan" /\ last.body = "CHECKING"
    /\ last' = IF scanInstanceGet(Polled.scanId) # {}
                 THEN [last EXCEPT !.status = 200, !.body = Polled.scanId]
                 ELSE [last EXCEPT
                         !.status = 500,
                         !.body = "Scan failed to initialize within the timeout."]
    /\ waited' = 0
    /\ UNCHANGED <<storeVars, cfgVars, modules, spawned, lockVars, usedIds, pre>>

\* A scan process the web process started creates its scan instance, while
\* the request that started it polls or after it has answered.
EngineCreateSpawned(s) ==
    /\ Idle \/ (last.op = "startscan" /\ last.body \in {"POLLING", "CHECKING"})
    /\ \E child \in spawned : child.scanId = s
    /\ scanInstanceGet(s) = {}
    /\ scanInstance' = scanInstanceCreate(scanInstance, s)
    /\ UNCHANGED <<scanConfig, scanResults, scanLog, scanCorrelationResults,
                   scanCorrelationResultsEvents, cfgVars, modVars, usedIds,
                   last, pre>>

\* Requests with an explicit module list, and one for each way of being
\* turned down before the modules are looked at.
ModTokens == {"sfp_a", StorDb, StorStdout}
ModLists ==
    (SeqsUpTo(ModTokens, MaxModList) \ {<<>>})
      \cup {<<Space>>, <<" sfp_a ", Space, "sfp_b">>}
StartRequest(scanname, scantarget, modulelist, typelist, usecase) ==
    [scanname |-> scanname, scantarget |-> scantarget,
     modulelist |-> modulelist, typelist |-> typelist, usecase |-> usecase]
ModRequests ==
    {StartRequest("scan", "Example.com", l, <<>>, "") : l \in ModLists}
      \cup {StartRequest("scan", "Example.com", <<"sfp_a">>, <<"EMAILADDR">>, "all"),
            StartRequest("scan", "\"John Doe\"", <<"sfp_a">>, <<>>, ""),
            StartRequest("", "Example.com", <<"sfp_a">>, <<>>, ""),
            StartRequest("scan", "", <<"sfp_a">>, <<>>, ""),
            StartRequest("scan", "???", <<"sfp_a">>, <<>>, ""),
            StartRequest("scan", "Example.com", <<>>, <<>>, "")}

\* Requests with a type list or a use case.
TypeLists ==
    {<<"IP_ADDRESS">>, <<"DOMAIN_NAME">>, <<"EMAILADDR">>,
     <<"IP_ADDRESS", "DOMAIN_NAME">>, <<" ", "type_IP_ADDRESS">>,
     <<"NO_SUCH_TYPE">>}
TypeRequests ==
    {StartRequest("scan", "Example.com", <<>>, l, "") : l \in TypeLists}
      \cup {StartRequest("scan", "Example.com", <<>>, <<>>, u) :
              u \in {"all", "passive", "investigate"}}
      \cup {StartRequest("scan", "Example.com", <<>>, <<"EMAILADDR">>, "all")}

\* The registry of the requests with explicit module lists.
ModRegistry ==
    StorageModules
      @@ ("sfp_a" :> ModuleInfo({"IP_ADDRESS"}, {"DOMAIN_NAME"}, {"passive"}))
      @@ ("sfp_b" :> ModuleInfo({"DOMAIN_NAME"}, {}, {"footprint"}))
      @@ ("sfp_c" :> ModuleInfo({"EMAILADDR"}, {"IP_ADDRESS"}, {"footprint"}))

\* The web process has started on an empty store; one earlier scan id is
\* known.
InitStart ==
    /\ scanInstance = {}
    /\ scanConfig = {}
    /\ scanResults = {}
    /\ scanLog = {}
    /\ scanCorrelationResults = {}
    /\ scanCorrelationResultsEvents = {}
    /\ usedIds = {"s2"}
    /\ last = NoAnswer
    /\ pre = NoPre
    /\ InitSettings

InitMod == InitStart /\ modules = ModRegistry

NextMod ==
    \/ \E q \in ModRequests, spawnFails \in BOOLEAN :
         startscan(q.scanname, q.scantarget, q.modulelist, q.typelist,
                   q.usecase, spawnFails)
    \/ startscan_Loop
    \/ startscan_Poll
    \/ \E s \in ScanIds : EngineCreateSpawned(s)
    \/ Respond

SpecMod == InitMod /\ [][NextMod]_vars

\* The thread that handles startscan keeps running: sleep(1) returns and
\* the test of the loop and the check after it are taken.
SpecModLive ==
    SpecMod /\ WF_vars(startscan_Loop) /\ WF_vars(startscan_Poll)

InitTypes == InitStart /\ modules \in Registries

NextTypes ==
    \/ \E q \in TypeRequests, spawnFails \in BOOLEAN :
         startscan(q.scanname, q.scantarget, q.modulelist, q.typelist,
                   q.usecase, spawnFails)
    \/ startscan_Loop
    \/ startscan_Poll
    \/ \E s \in ScanIds : EngineCreateSpawned(s)
    \/ Respond

SpecTypes == InitTypes /\ [][NextTypes]_vars


(***************************************************************************)
(* Claims on startscan                                                     *)
(***************************************************************************)
StartModuleList == last.args[3]
StartTypeList == last.args[4]
StartUseCase == last.args[5]

\* The request got past the checks of name, target and target type.
StartChecked ==
    /\ last.op = "startscan"
    /\ last.args[1] # "" /\ last.args[2] # ""
    /\ targetTypeFromString(last.args[2]) # "None"

\* The event types a type list asks for.
TypesAsked(typelist) ==
    {Untyped(strip(t)) : t \in Range(typelist)} \ {""}

\* A set of modules holds the producers of the types asked for and, with a
\* module, the producers of every type the module consumes.
Closed(reg, types, M) ==
    /\ \A mod \in DOMAIN reg : reg[mod].provides \cap types # {} => mod \in M
    /\ \A mod \in M : \A t \in reg[mod].consumes :
         \A p \in DOMAIN reg : t \in reg[p].provides => p \in M

\* The least such set: the modules that are in all of them.
LeastClosed(reg, types) ==
    {mod \in DOMAIN reg :
       \A M \in SUBSET DOMAIN reg : Closed(reg, types, M) => mod \in M}

\* The module list a scan process is handed when modules M were resolved.
Handed(M) == (M \cup {StorDb}) \ {StorStdout}

\* C9: given only a type list, the module set startscan resolves is the
\* least set closed under "produces a requested type" and "produces a type
\* consumed by a module of the set", the expansion loop ends, and the scan
\* process is handed that set; given only the use case "all", the set is
\* every registered module.
C9_TypeListLeastFixedPoint ==
    (StartChecked /\ StartModuleList = <<>>) =>
      /\ StartTypeList # <<>> =>
           LET r == startscan_TypeList(modules, StartTypeList)
               M == LeastClosed(modules, TypesAsked(StartTypeList))
           IN  /\ r.done
               /\ last.body # "HANG"
               /\ r.modlist = M
               /\ M = {} => last.status = 400 /\ spawned = pre.spawned
               /\ \A child \in spawned \ pre.spawned :
                    Range(child.modlist) = Handed(M)
      /\ (StartTypeList = <<>> /\ StartUseCase = "all") =>
           /\ startscan_UseCase(modules, StartUseCase) = DOMAIN modules
           /\ \A child \in spawned \ pre.spawned :
                Range(child.modlist) = Handed(DOMAIN modules)

\* A scan was started from a type list whose closure takes two rounds of
\* the loop: a module was added for a type that only a module added in the
\* first round consumes.
C9_Witness ==
    /\ StartChecked /\ last.status = 200
    /\ StartModuleList = <<>> /\ StartTypeList # <<>>
    /\ LET types == TypesAsked(StartTypeList)
           first == modulesProducing(modules, types)
           second == first \cup
                       UNION {modulesProducing(modules, {t}) :
                                t \in eventsToModules(modules, first)}
       IN  /\ second # first
           /\ LeastClosed(modules, types) # second
           /\ \E child \in spawned \ pre.spawned :
                Range(child.modlist) = Handed(LeastClosed(modules, types))

IsSorted(list) ==
    \A i \in 1..Len(list), j \in 1..Len(list) :
       i < j =>
         \E a \in 1..Len(ModuleOrder), b \in 1..Len(ModuleOrder) :
            /\ ModuleOrder[a] = list[i] /\ ModuleOrder[b] = list[j]
            /\ a <= b

\* C10: the module list handed to a started scan process is sorted, holds
\* sfp__stor_db and holds sfp__stor_stdout nowhere; when the module
\* resolution gives an empty list startscan answers 400 and starts no
\* process.
C10_HandedModuleList ==
    /\ \A child \in spawned :
         /\ IsSorted(child.modlist)
         /\ StorDb \in Range(child.modlist)
         /\ StorStdout \notin Range(child.modlist)
    /\ (/\ StartChecked
        /\ startscan_Resolve(modules, StartModuleList, StartTypeList,
                             StartUseCase).modlist = <<>>)
         => last.status = 400 /\ spawned = pre.spawned


(***************************************************************************)
(* Claims on the polling loop of startscan                                 *)
(***************************************************************************)
StartPolling == last.op = "startscan" /\ last.body \in {"POLLING", "CHECKING"}
StartAnsweredId ==
    /\ last.op = "startscan" /\ last.status = 200
    /\ \E child \in spawned \ pre.spawned : last.body = child.scanId
StartTimedOut ==
    /\ last.op = "startscan" /\ last.status = 500
    /\ last.body = "Scan failed to initialize within the timeout."

\* C11: a startscan request that has started a scan process answers in the
\* end: the polling loop sleeps at most timeout times, the id of the scan
\* is answered only when the scan instance is in the store at the check
\* after the loop, and the timeout error is answered when the instance is
\* not in the store at that check, which is reached without an instance
\* only after timeout seconds.
C11_PollAnswers ==
    /\ [](waited \in 0..timeout)
    /\ [](StartAnsweredId => scanInstanceGet(last.body) # {})
    /\ [](StartTimedOut => scanInstanceGet(Polled.scanId) = {})
    /\ [](last.op = "startscan" /\ last.body = "CHECKING"
            /\ scanInstanceGet(Polled.scanId) = {} => waited = timeout)
    /\ (StartPolling ~> (StartAnsweredId \/ StartTimedOut))
C11_Witness ==
    /\ StartTimedOut
    /\ scanInstanceGet(Polled.scanId) = {}
    /\ Polled \in spawned

(***************************************************************************)
(* scanEventStore and the findings it turns down                           *)
(***************************************************************************)
\* Findings handed to scanEventStore: scores at and around the ends of
\* 0..100, fields empty or not, generated 0.0 or a time.
Scores == {-1, 0, 100, 101}
SfEvents ==
    [hash : {"a", "b"}, eventType : {"", "ROOT", "IP_ADDRESS"},
     data : {"", "x"}, module : {"", "sfp_a"},
     confidence : Scores, visibility : Scores, risk : Scores,
     sourceEventHash : {"", ROOT}, generated : {0, Now}]

\* SpiderFootDb.scanEventStore, the checks before the insert, in the order
\* of the code: the exception raised, "None" when the finding passes.  The
\* arguments have the types the signature names.
scanEventStore_Raises_RootChecked(instanceId, sfEvent) ==
    IF instanceId = "" THEN "ValueError"
    ELSE IF sfEvent.generated = 0 THEN "ValueError"
    ELSE IF sfEvent.eventType = "" THEN "ValueError"
    ELSE IF sfEvent.data = "" THEN "ValueError"
    ELSE IF sfEvent.module = "" THEN "ValueError"
    ELSE IF ~(0 <= sfEvent.confidence /\ sfEvent.confidence <= 100) THEN "ValueError"
    ELSE IF ~(0 <= sfEvent.visibility /\ sfEvent.visibility <= 100) THEN "ValueError"
    ELSE IF ~(0 <= sfEvent.risk /\ sfEvent.risk <= 100) THEN "ValueError"
    ELSE IF sfEvent.sourceEventHash = "" THEN "ValueError"
    ELSE "None"
scanEventStore_Raises(instanceId, sfEvent) ==
    IF instanceId = "" THEN "ValueError"
    ELSE IF sfEvent.generated = 0 THEN "ValueError"
    ELSE IF sfEvent.eventType = "" THEN "ValueError"
    ELSE IF sfEvent.data = "" THEN "ValueError"
    ELSE IF sfEvent.module = "" /\ sfEvent.eventType # "ROOT" THEN "ValueError"
    ELSE IF ~(0 <= sfEvent.confidence /\ sfEvent.confidence <= 100) THEN "ValueError"
    ELSE IF ~(0 <= sfEvent.visibility /\ sfEvent.visibility <= 100) THEN "ValueError"
    ELSE IF ~(0 <= sfEvent.risk /\ sfEvent.risk <= 100) THEN "ValueError"
    ELSE IF sfEvent.sourceEventHash = "" THEN "ValueError"
    ELSE "None"

\* A call of scanEventStore by a module of a running scan: the checks, then
\* the insert.  A second row under the same (scan, hash) breaks the primary
\* key: the except branch names self.db_session, which the class does not
\* define, and the call ends in an AttributeError with nothing stored.
scanEventStore_Call(instanceId, sfEvent) ==
    LET raised == scanEventStore_Raises(instanceId, sfEvent)
        answer(body) == Answer("scanEventStore", 1, body, <<instanceId, sfEvent>>)
    IN  /\ Idle
        /\ pre' = Db
        /\ IF raised # "None"
             THEN /\ last' = answer(raised)
                  /\ UNCHANGED scanResults
           ELSE IF \E r \in scanResults :
                      r.scan_instance_id = instanceId /\ r.hash = sfEvent.hash
             THEN /\ last' = answer("AttributeError")
                  /\ UNCHANGED scanResults
           ELSE /\ last' = answer("None")
                /\ scanResults' =
                     scanEventStore(scanResults, instanceId, sfEvent.hash,
                                    sfEvent.eventType, sfEvent.sourceEventHash)
        /\ UNCHANGED <<scanInstance, scanConfig, scanLog, scanCorrelationResults,
                       scanCorrelationResultsEvents, cfgVars, modVars, usedIds>>

\* One running scan without findings.
InitStore ==
    /\ InitSettings
    /\ scanInstance = scanInstanceSet(scanInstanceCreate({}, FpScan), FpScan,
                                      Now, -1, "RUNNING")
    /\ scanConfig = {} /\ scanResults = {} /\ scanLog = {}
    /\ scanCorrelationResults = {} /\ scanCorrelationResultsEvents = {}
    /\ modules = <<>>
    /\ usedIds = {FpScan}
    /\ last = NoAnswer
    /\ pre = NoPre

NextStore ==
    \/ /\ Idle
       /\ \E instanceId \in {FpScan, Blank}, sfEvent \in SfEvents :
            scanEventStore_Call(instanceId, sfEvent)
    \/ Respond

SpecStore == InitStore /\ [][NextStore]_vars

StoreCalled == last.op = "scanEventStore"
StoreEvent == last.args[2]
\* The findings the checks are meant to turn down.
TurnedDown(sfEvent) ==
    \/ sfEvent.confidence \notin 0..100
    \/ sfEvent.visibility \notin 0..100
    \/ sfEvent.risk \notin 0..100
    \/ sfEvent.eventType = ""
    \/ sfEvent.data = ""
    \/ sfEvent.sourceEventHash = ""
    \/ sfEvent.module = "" /\ sfEvent.eventType # "ROOT"

\* C12: a finding with a score outside 0..100, with an empty type, data or
\* source hash, or with an empty module and a type other than ROOT, makes
\* scanEventStore raise ValueError and leaves the store as it was; a ROOT
\* finding with an empty module and nothing else wrong is stored.
C12_StoreTurnsDown ==
    StoreCalled =>
      /\ TurnedDown(StoreEvent) => last.body = "ValueError" /\ Db = pre
      /\ last.body = "ValueError" => Db = pre
      /\ ( /\ StoreEvent.eventType = "ROOT" /\ StoreEvent.module = ""
           /\ ~TurnedDown(StoreEvent)
           /\ last.args[1] # "" /\ StoreEvent.generated # 0
           /\ StoreEvent.hash \notin {r.hash : r \in pre.res} )
         => /\ last.body = "None"
            /\ \E r \in scanResults \ pre.res :
                 r.hash = StoreEvent.hash /\ r.type = "ROOT"
C12_Witness ==
    /\ StoreCalled
    /\ TurnedDown(StoreEvent)
    /\ pre.res # {}
    /\ \E r \in pre.res : r.type = "ROOT" /\ r.hash # StoreEvent.hash

(***************************************************************************)
(* search: the criteria searchBase builds and SpiderFootDb.search checks   *)
(***************************************************************************)
\* A string is the sequence of its characters; "s1" and "IP_ADDRESS" stand
\* for one character each, None and "" are both <<>>.
MaxValueLen == 3      \* characters of a search value
SearchChars == {"/", "x", "*"}
SearchValues == SeqsUpTo(SearchChars, MaxValueLen)
SearchIds == {<<>>, <<"s1">>}
SearchTypes == {<<>>, <<"IP_ADDRESS">>}

startswith(s, c) == Len(s) > 0 /\ s[1] = c
endswith(s, c) == Len(s) > 0 /\ s[Len(s)] = c
\* value.replace('*', '%')
replace(s) == [i \in 1..Len(s) |-> IF s[i] = "*" THEN "%" ELSE s[i]]

\* searchBase: the criteria handed to SpiderFootDb.search.
searchBase_Criteria(id, eventType, value) ==
    LET wrapped == startswith(value, "/") /\ endswith(value, "/")
        regex == IF wrapped THEN SubSeq(value, 2, Len(value) - 1) ELSE <<>>
        literal == replace(IF wrapped THEN <<>> ELSE value)
    IN  [scan_id |-> id, type |-> eventType,
         value |-> IF literal = <<>> /\ regex = <<>> THEN <<"%">> ELSE literal,
         regex |-> regex]

valid_criteria == {"scan_id", "type", "value", "regex"}

\* SpiderFootDb.search, the loop over the keys: keys it does not know and
\* empty values are popped.
search_Kept(criteria) ==
    [key \in {k \in DOMAIN criteria :
                k \in valid_criteria /\ criteria[k] # <<>>} |-> criteria[key]]

\* SpiderFootDb.search: ValueError when fewer than two criteria are left.
\* With two or more the statement is built as qry_str, but execute() is
\* given the name qry, which the method never binds: NameError, and the
\* store is not queried.
search_OneIsEnough(criteria) ==
    LET kept == search_Kept(criteria)
    IN  IF Cardinality(DOMAIN kept) = 0
          THEN [raised |-> "ValueError", criteria |-> kept, queried |-> FALSE]
          ELSE [raised |-> "NameError", criteria |-> kept, queried |-> FALSE]
search(criteria) ==
    LET kept == search_Kept(criteria)
    IN  IF Cardinality(DOMAIN kept) = 0
          THEN [raised |-> "ValueError", criteria |-> kept, queried |-> FALSE]
        ELSE IF Cardinality(DOMAIN kept) = 1
          THEN [raised |-> "ValueError", criteria |-> kept, queried |-> FALSE]
        ELSE [raised |-> "NameError", criteria |-> kept, queried |-> FALSE]

\* searchBase: nothing is searched when all three arguments are empty; any
\* exception of SpiderFootDb.search gives the empty result.
NotSearched == [raised |-> "None", criteria |-> <<>>, queried |-> FALSE]
searchBase(id, eventType, value) ==
    IF id = <<>> /\ eventType = <<>> /\ value = <<>>
      THEN NotSearched
      ELSE search(searchBase_Criteria(id, eventType, value))

\* POST /search: the answer is the list searchBase returns.
search_Request(id, eventType, value) ==
    /\ Idle
    /\ pre' = Db
    /\ last' = Answer("search", 200, searchBase(id, eventType, value),
                      <<id, eventType, value>>)
    /\ UNCHANGED <<storeVars, cfgVars, modVars, usedIds>>

\* A call of SpiderFootDb.search with criteria of the caller's making,
\* among them a key the method does not know.
SearchKeys == {"scan_id", "value", "regex", "module"}
SearchCriteria ==
    UNION {[keys -> {<<>>, <<"x">>}] : keys \in SUBSET SearchKeys}
search_Call(criteria) ==
    /\ Idle
    /\ pre' = Db
    /\ last' = Answer("dbh.search", 1, search(criteria), <<criteria>>)
    /\ UNCHANGED <<storeVars, cfgVars, modVars, usedIds>>

NextSearch ==
    \/ /\ Idle
       /\ \E id \in SearchIds, eventType \in SearchTypes, value \in SearchValues :
            search_Request(id, eventType, value)
    \/ /\ Idle
       /\ \E criteria \in SearchCriteria : search_Call(criteria)
    \/ Respond

SpecSearch == InitStore /\ [][NextSearch]_vars

\* The criteria of a call that are known and not empty.
Surviving(criteria) ==
    {k \in DOMAIN criteria \cap valid_criteria : criteria[k] # <<>>}
FewCriteriaRaise ==
    last.op = "dbh.search" /\ Cardinality(Surviving(last.args[1])) < 2
      => last.body.raised = "ValueError" /\ ~last.body.queried /\ Db = pre
\* The value of the request starts and ends with a slash, around text.
Wrapped(value) == Len(value) >= 2 /\ value[1] = "/" /\ value[Len(value)] = "/"
Inner(value) == SubSeq(value, 2, Len(value) - 1)
\* The criteria of the request reach search with the regex and no value.
PassedAsRegex(value) ==
    LET passed == searchBase_Criteria(last.args[1], last.args[2], value)
    IN  /\ passed.regex = Inner(value)
        /\ passed.value = <<>>
        /\ "regex" \in DOMAIN search_Kept(passed)
        /\ "value" \notin DOMAIN search_Kept(passed)
        /\ last.body.criteria = search_Kept(passed)

\* C13, as stated: search raises ValueError without a query when fewer
\* than two criteria survive, and every search value wrapped in slashes
\* reaches search as the regex criterion without a value criterion.
C13_WrappedIsRegex ==
    /\ FewCriteriaRaise
    /\ last.op = "search" /\ Wrapped(last.args[3]) => PassedAsRegex(last.args[3])

\* C13, amended: search raises ValueError without a query when fewer than
\* two criteria survive, and a search value with text between its slashes
\* reaches search as the regex criterion without a value criterion; the
\* value "//" is searched as the value "%".
C13_WrappedTextIsRegex ==
    /\ FewCriteriaRaise
    /\ last.op = "search" /\ Wrapped(last.args[3]) =>
         IF Inner(last.args[3]) # <<>>
           THEN PassedAsRegex(last.args[3])
           ELSE searchBase_Criteria(last.args[1], last.args[2], last.args[3]).value
                  = <<"%">>
C13_Witness ==
    /\ last.op = "search"
    /\ Wrapped(last.args[3]) /\ Inner(last.args[3]) # <<>>
    /\ last.args[1] # <<>>
    /\ DOMAIN last.body.criteria = {"scan_id", "regex"}

(***************************************************************************)
(* scanElementSourcesAll and scanelementtypediscovery                      *)
(***************************************************************************)
\* SpiderFootDb.scanResultEvent(instanceId, eventType): the rows of the
\* scan of that type, or of every type for 'ALL', each joined with its
\* source row.
scanResultEvent(tbl, instanceId, eventType) ==
    Joined(tbl, {c \in OfScan(tbl, instanceId) :
                   eventType = "ALL" \/ c.type = eventType})

\* The map pc of scanElementSourcesAll, parent id to list of child ids.  No
\* claim speaks of the order within a list, which is the order of the rows:
\* pc is kept as the number of times each child stands under each parent.
\* One (parent, child) pair per row: a child is appended unless its parent
\* lists it already.
scanElementSourcesAll_Append_Unchecked(pc, rows) ==
    LET pairs == {<<row.source_event_hash, row.hash>> : row \in rows}
    IN  [pr \in DOMAIN pc \cup pairs |->
           IF pr \notin DOMAIN pc THEN 1
           ELSE IF pr \in pairs THEN pc[pr] + 1
           ELSE pc[pr]]
scanElementSourcesAll_Append(pc, rows) ==
    LET pairs == {<<row.source_event_hash, row.hash>> : row \in rows}
    IN  [pr \in DOMAIN pc \cup pairs |->
           IF pr \in DOMAIN pc THEN pc[pr] ELSE 1]

\* SpiderFootDb.scanElementSourcesAll, the while loop: the rows of the ids
\* in nextIds are looked up, each is put in datamap under its hash and in
\* pc under its parent, and the parents are the ids of the next round,
\* which takes place when one of them is not ROOT.  datamap: the pairs
\* <<key, hash of the row held>>.  final: the pairs <<parentId, hash of
\* row>> that the last row read can leave in the two loop variables; the
\* rows of a round come in any order.
RECURSIVE scanElementSourcesAll_Loop(_, _, _, _, _, _, _)
scanElementSourcesAll_Loop(tbl, instanceId, nextIds, datamap, pc, final, rounds) ==
    LET parentSet == scanElementSourcesDirect(tbl, instanceId, nextIds)
        parents == {row.source_event_hash : row \in parentSet}
        keepGoing == \E row \in parentSet : row.source_event_hash # ROOT
        added == scanElementSourcesAll_Append(pc, parentSet)
        seen == datamap \cup {<<row.hash, row.hash>> : row \in parentSet}
        lastRow == IF parentSet = {} THEN final
                   ELSE {<<row.source_event_hash, row.hash>> : row \in parentSet}
    IN  IF keepGoing /\ rounds > 0
          THEN scanElementSourcesAll_Loop(tbl, instanceId, parents, seen,
                                          added, lastRow, rounds - 1)
          ELSE [done |-> ~keepGoing, pc |-> added, datamap |-> seen,
                final |-> lastRow]

\* SpiderFootDb.scanElementSourcesAll: ValueError on an empty childData,
\* else the leaf rows under their hashes and their parents, and the loop
\* upwards.
scanElementSourcesAll(tbl, instanceId, childData) ==
    IF childData = {}
      THEN [raised |-> "ValueError", done |-> TRUE, pc |-> <<>>,
            datamap |-> {}, final |-> {}]
      ELSE LET r == scanElementSourcesAll_Loop(
                      tbl, instanceId,
                      {row.source_event_hash : row \in childData},
                      {<<row.hash, row.hash>> : row \in childData},
                      scanElementSourcesAll_Append(<<>>, childData),
                      {<<row.source_event_hash, row.hash>> : row \in childData},
                      Len(FpHashes) + 1)
           IN  [raised |-> "None", done |-> r.done, pc |-> r.pc,
                datamap |-> r.datamap, final |-> r.final]

\* SpiderFootDb.scanElementSourcesAll, the statement after the loop:
\* datamap[parentId] = tuple(row), with the parentId and the row the last
\* pass of a for loop left.  The maps that can be returned.
scanElementSourcesAll_Return(r) ==
    IF r.final = {} THEN {r.datamap}
    ELSE {{pr \in r.datamap : pr[1] # f[1]} \cup {f} : f \in r.final}

\* pc.pop('ROOT', None): the map handed to dataParentChildToTree.
PopRoot(pc) == [pr \in {q \in DOMAIN pc : q[1] # ROOT} |-> pc[pr]]

\* POST /scanelementtypediscovery: the tree is built by sflib from pc
\* without its ROOT key; an exception of the two store calls gives {}.
scanelementtypediscovery(id, eventType) ==
    LET leafSet == scanResultEvent(scanResults, id, eventType)
        r == scanElementSourcesAll(scanResults, id, leafSet)
    IN  /\ Idle
        /\ pre' = Db
        /\ \E datamap \in scanElementSourcesAll_Return(r) :
             last' = Answer("scanelementtypediscovery",
                            IF r.done THEN 200 ELSE 0,
                            [raised |-> r.raised, pc |-> r.pc,
                             tree |-> PopRoot(r.pc), data |-> datamap],
                            <<id, {row.hash : row \in leafSet}>>)
        /\ UNCHANGED <<storeVars, cfgVars, modVars, usedIds>>

\* A call of scanElementSourcesAll with the rows of some findings.
scanElementSourcesAll_Call(instanceId, leafs) ==
    LET childData == scanElementSourcesDirect(scanResults, instanceId, leafs)
        r == scanElementSourcesAll(scanResults, instanceId, childData)
    IN  /\ Idle
        /\ pre' = Db
        /\ \E datamap \in scanElementSourcesAll_Return(r) :
             last' = Answer("scanElementSourcesAll", IF r.done THEN 1 ELSE 0,
                            [raised |-> r.raised, pc |-> r.pc,
                             tree |-> PopRoot(r.pc), data |-> datamap],
                            <<instanceId, {row.hash : row \in childData}>>)
        /\ UNCHANGED <<storeVars, cfgVars, modVars, usedIds>>

\* A finished scan with findings in one of the lineages, and a second scan
\* with findings of the same hashes.
InitSources ==
    /\ InitSettings
    /\ scanInstance =
         scanInstanceSet(
           scanInstanceSet(
             scanInstanceCreate(scanInstanceCreate({}, FpScan), FpOther),
             FpOther, Now * 1000, Now * 1000, "FINISHED"),
           FpScan, Now * 1000, Now * 1000, "FINISHED")
    /\ \E p \in Lineages :
         scanResults = StoreLineage(StoreLineage({}, FpOther, p, 1),
                                    FpScan, p, Len(FpHashes))
    /\ scanConfig = {} /\ scanLog = {}
    /\ scanCorrelationResults = {} /\ scanCorrelationResultsEvents = {}
    /\ modules = <<>>
    /\ usedIds = {FpScan, FpOther}
    /\ last = NoAnswer
    /\ pre = NoPre

NextSources ==
    \/ /\ Idle
       /\ \E eventType \in {"IP_ADDRESS", "ALL", "URL"} :
            scanelementtypediscovery(FpScan, eventType)
    \/ /\ Idle
       /\ \E leafs \in SUBSET Range(FpHashes) :
            scanElementSourcesAll_Call(FpScan, leafs)
    \/ Respond

SpecSources == InitSources /\ [][NextSources]_vars

\* The stored (source, finding) pairs of the scan asked about.
LineagePairs ==
    {<<r.source_event_hash, r.hash>> : r \in OfScan(scanResults, last.args[1])}
SourceOf(h) == (CHOOSE pr \in LineagePairs : pr[2] = h)[1]
\* The findings on a path from one of the findings in hs up to ROOT.
RECURSIVE PathsUp(_, _)
PathsUp(hs, n) ==
    IF n = 0 THEN hs
    ELSE PathsUp(hs \cup {SourceOf(h) : h \in hs}, n - 1)
OnPaths == PathsUp(last.args[2], Len(FpHashes)) \ {ROOT}
SourcesAsked ==
    /\ last.op \in {"scanElementSourcesAll", "scanelementtypediscovery"}
    /\ last.args[2] # {}

\* C14: for findings in a tree under ROOT, scanElementSourcesAll ends and
\* its map puts every finding on a path from a leaf to ROOT under its
\* parent, once, and holds no pair that is not a stored (source, finding)
\* pair of the scan; the map scanelementtypediscovery builds its tree from
\* is that map without the ROOT key.
C14_SourcesAllMap ==
    SourcesAsked =>
      /\ last.status # 0
      /\ last.body.raised = "None"
      /\ \A h \in OnPaths : <<SourceOf(h), h>> \in DOMAIN last.body.pc
      /\ \A pr \in DOMAIN last.body.pc :
           /\ last.body.pc[pr] = 1
           /\ pr \in LineagePairs
           /\ pr[2] \in OnPaths \cup {ROOT}
      /\ DOMAIN last.body.tree =
           {<<SourceOf(h), h>> : h \in {x \in OnPaths : SourceOf(x) # ROOT}}
      /\ \A pr \in DOMAIN last.body.tree : pr[1] # ROOT /\ pr[2] # ROOT
C14_Witness ==
    /\ last.op = "scanelementtypediscovery"
    /\ last.args[2] = Range(FpHashes)
    /\ DOMAIN last.body.tree = {<<"a", "b">>, <<"b", "c">>, <<"c", "d">>, <<"d", "e">>}

(***************************************************************************)
(* scanInstanceList                                                        *)
(***************************************************************************)
\* The rows of the first SELECT of scanInstanceList: the scans joined with
\* their findings of a type other than ROOT, one row per guid with the
\* number of those findings.
scanInstanceList_WithResults(inst, res) ==
    {[branch |-> 1, guid |-> i.guid, created |-> i.created \div 1000,
      started |-> i.started \div 1000, ended |-> i.ended \div 1000,
      status |-> i.status,
      count |-> Cardinality({r \in res : r.scan_instance_id = i.guid
                                           /\ r.type # "ROOT"})] :
       i \in {x \in inst : \E r \in res : r.scan_instance_id = x.guid
                                            /\ r.type # "ROOT"}}

\* SpiderFootDb.scanInstanceList, without the NOT IN of its second SELECT.
scanInstanceList_EveryScanAgain(inst, res) ==
    scanInstanceList_WithResults(inst, res)
      \cup {[branch |-> 2, guid |-> i.guid, created |-> i.created \div 1000,
             started |-> i.started \div 1000, ended |-> i.ended \div 1000,
             status |-> i.status, count |-> 0] : i \in inst}
\* SpiderFootDb.scanInstanceList: UNION ALL of the first SELECT and of the
\* scans that have no finding of a type other than ROOT, which are given
\* the count '0'.  Rows of the two SELECTs are kept apart by branch, so
\* that a scan listed by both is listed twice.
scanInstanceList(inst, res) ==
    scanInstanceList_WithResults(inst, res)
      \cup {[branch |-> 2, guid |-> i.guid, created |-> i.created \div 1000,
             started |-> i.started \div 1000, ended |-> i.ended \div 1000,
             status |-> i.status, count |-> 0] :
              i \in {x \in inst :
                       x.guid \notin {r.scan_instance_id :
                                        r \in {y \in res : y.type # "ROOT"}}}}

\* A call of scanInstanceList.
scanInstanceList_Call ==
    /\ Idle
    /\ pre' = Db
    /\ last' = Answer("scanInstanceList", 1,
                      scanInstanceList(scanInstance, scanResults), <<>>)
    /\ UNCHANGED <<storeVars, cfgVars, modVars, usedIds>>

NextList ==
    \/ NextScan
    \/ scanInstanceList_Call

SpecList == InitScan /\ [][NextList]_vars

Listed == last.op = "scanInstanceList"
NonRoot(s) ==
    {r \in scanResults : r.scan_instance_id = s /\ r.type # "ROOT"}

\* C15: whatever scans were created, findings stored and scans deleted,
\* scanInstanceList has one row for each scan of the store and no other
\* row, with the number of the scan's findings of a type other than ROOT;
\* a scan that was created and not touched since is listed as CREATED with
\* started = ended = 0, and with count 0 as long as it has no such finding.
C15_ListCounts ==
    Listed =>
      /\ \A i \in scanInstance :
           /\ Cardinality({row \in last.body : row.guid = i.guid}) = 1
           /\ \A row \in last.body :
                row.guid = i.guid =>
                  /\ row.count = Cardinality(NonRoot(i.guid))
                  /\ row.status = i.status
                  /\ i.status = "CREATED" =>
                       row.started = 0 /\ row.ended = 0
      /\ \A row \in last.body : \E i \in scanInstance : i.guid = row.guid
C15_Witness ==
    /\ Listed
    /\ \E x, y \in last.body :
         /\ x.status = "CREATED" /\ x.count = 0
         /\ y.count = 2

(***************************************************************************)
(* The requests that look a scan up                                        *)
(***************************************************************************)
\* SpiderFootDb.scanConfigGet: the options of the scan, by name.
scanConfigGet(tbl, instanceId) ==
    {[opt |-> r.opt, val |-> r.val] :
       r \in {x \in tbl : x.scan_instance_id = instanceId}}

\* A request that reads the store and answers.
Reads(op, status, body, args) ==
    /\ Idle
    /\ pre' = Db
    /\ last' = Answer(op, status, body, args)
    /\ UNCHANGED <<storeVars, cfgVars, modVars, usedIds>>

\* POST /api/scanstatus: the empty list for an id without instance, which
\* the response model ScanStatus either lets through (200) or turns into a
\* validation failure (500); the status of the scan otherwise.
scanstatus(id) ==
    IF scanInstanceGet(id) = {}
      THEN \E status \in {200, 500} : Reads("scanstatus", status, "[]", <<id>>)
      ELSE Reads("scanstatus", 200, StatusOf(id), <<id>>)

\* POST /api/scanopts.
scanopts(id) ==
    IF scanInstanceGet(id) = {}
      THEN Reads("scanopts", 404, "Scan ID not found.", <<id>>)
      ELSE Reads("scanopts", 200, "meta", <<id>>)

\* GET /scaninfo.
scan_info(id) ==
    IF scanInstanceGet(id) = {}
      THEN Reads("scaninfo", 404, "Scan ID not found.", <<id>>)
      ELSE Reads("scaninfo", 200, StatusOf(id), <<id>>)

\* GET /scanviz, with an id that is not empty.
scan_viz(id) ==
    IF scanInstanceGet(id) = {}
      THEN Reads("scanviz", 404, "Scan not found", <<id>>)
      ELSE Reads("scanviz", 200, "graph", <<id>>)

\* GET /clonescan.
clone_scan(id) ==
    IF scanInstanceGet(id) = {}
      THEN Reads("clonescan", 404, "Invalid scan ID.", <<id>>)
    ELSE IF scanConfigGet(scanConfig, id) = {}
      THEN Reads("clonescan", 500, "Missing scan data.", <<id>>)
    ELSE Reads("clonescan", 200, "form", <<id>>)

\* The ids genScanInstanceId gives the scans that are run again, in the
\* order they are given out.
RerunIds == <<"r1", "r2", "r3", "r4">>
NextRerunId(used) ==
    RerunIds[Min({i \in 1..Len(RerunIds) : RerunIds[i] \notin used})]

\* One scan run again by rerunscan or rerunscanmulti, from a store db with
\* the ids used so far: the process is started with the modules of the
\* scan's configuration, and the handler waits until its instance is in the
\* store, 10 seconds at most.  Here the scan process creates its instance
\* and its configuration, or does not in time, within that wait.
Rerun(db, id, spawnFails) ==
    LET scanId == NextRerunId(db.used)
        modlist == {<<o.val>> : o \in {x \in scanConfigGet(db.cfg, id) :
                                         x.opt = "_modulesenabled"}}
        child == [scanId |-> scanId, scanname |-> "scan",
                  scantarget |-> "example.com", targetType |-> "INTERNET_NAME",
                  modlist |-> CHOOSE l \in modlist : TRUE, cfg |-> config]
        started == [db EXCEPT !.used = @ \cup {scanId},
                              !.spawned = startSpiderFootScanner_Process(@, child)]
    IN  IF spawnFails
          THEN {[status |-> 500, db |-> [db EXCEPT !.used = @ \cup {scanId}]]}
          ELSE {[status |-> 500, db |-> started],
                [status |-> 302,
                 db |-> [started EXCEPT
                           !.inst = scanInstanceCreate(@, scanId),
                           !.cfg = scanConfigSet(@, scanId, "_modulesenabled",
                                                 child.modlist[1])]]}

\* The request leaves the store and the started processes as db has them.
Writes(op, status, body, args, db) ==
    /\ Idle
    /\ pre' = Db
    /\ last' = Answer(op, status, body, args)
    /\ scanInstance' = db.inst
    /\ scanConfig' = db.cfg
    /\ spawned' = db.spawned
    /\ usedIds' = db.used
    /\ UNCHANGED <<scanResults, scanLog, scanCorrelationResults,
                   scanCorrelationResultsEvents, cfgVars, modules, waited,
                   lockVars>>

RerunDb ==
    [inst |-> scanInstance, cfg |-> scanConfig, spawned |-> spawned,
     used |-> usedIds]

\* No scan has been run again yet: the requests that run scans again are
\* followed up to the first that starts one.
NoRerunYet == usedIds \cap Range(RerunIds) = {}

\* GET /api/rerunscan.
rerun_scan(id, spawnFails) ==
    /\ NoRerunYet
    /\ IF scanInstanceGet(id) = {}
         THEN Reads("rerunscan", 404, "Invalid scan ID.", <<id>>)
       ELSE IF scanConfigGet(scanConfig, id) = {}
         THEN Reads("rerunscan", 500, "Error loading config", <<id>>)
       ELSE \E out \in Rerun(RerunDb, id, spawnFails) :
              Writes("rerunscan", out.status, "rerun", <<id>>, out.db)

\* GET /api/rerunscanmulti, the loop over the ids: each id is looked up
\* when its turn comes, after the scans of the ids before it were started.
\* new_scan_ids are the ids of the scans started and seen in the store so
\* far; named are the scan ids the response names: new_scan_ids in the
\* message of the 200 answer, the id of the scan that failed to start or to
\* show up in time in the message of that error, none in the other errors.
RECURSIVE rerun_scan_multi_Loop(_, _, _, _)
rerun_scan_multi_Loop(db, ids, spawnFails, new_scan_ids) ==
    IF ids = <<>> THEN {[status |-> 200, db |-> db, named |-> new_scan_ids]}
    ELSE IF {r \in db.inst : r.guid = Head(ids)} = {}
      THEN {[status |-> 400, db |-> db, named |-> {}]}
    ELSE IF scanConfigGet(db.cfg, Head(ids)) = {}
      THEN {[status |-> 500, db |-> db, named |-> {}]}
    ELSE LET scanId == NextRerunId(db.used)
         IN  UNION {IF out.status = 302
                      THEN rerun_scan_multi_Loop(out.db, Tail(ids), spawnFails,
                                                 new_scan_ids \cup {scanId})
                      ELSE {[status |-> out.status, db |-> out.db,
                             named |-> {scanId}]} :
                    out \in Rerun(db, Head(ids), spawnFails)}

\* GET /api/rerunscanmulti?ids=...  ids is the string split at the commas.
rerun_scan_multi(ids, spawnFails) ==
    /\ NoRerunYet
    /\ \E out \in rerun_scan_multi_Loop(RerunDb, ids, spawnFails, {}) :
         Writes("rerunscanmulti", out.status, out.named, ids, out.db)

\* One scan in any status, with or without its configuration, with the
\* ROOT finding and one more.
InitFound ==
    /\ InitSettings
    /\ \E st \in Statuses :
         scanInstance =
           scanInstanceSet(scanInstanceCreate({}, FpScan), FpScan,
                           IF st = "CREATED" THEN -1 ELSE Now * 1000,
                           IF st \in Terminal THEN Now * 1000 ELSE -1, st)
    /\ \E hasConfig \in BOOLEAN :
         scanConfig = IF hasConfig
                        THEN scanConfigSet({}, FpScan, "_modulesenabled",
                                           "sfp__stor_db")
                        ELSE {}
    /\ scanResults = StoreLineage({}, FpScan, [i \in 1..1 |-> 0], 1)
    /\ scanLog = {}
    /\ scanCorrelationResults = {} /\ scanCorrelationResultsEvents = {}
    /\ modules = <<>>
    /\ usedIds = {FpScan}
    /\ last = NoAnswer
    /\ pre = NoPre

FoundIds == {FpScan, UnknownScanId}
FoundLists == SeqsUpTo(FoundIds, MaxIdTokens) \ {<<>>}

NextFound ==
    \/ \E id \in FoundIds : scanstatus(id)
    \/ \E id \in FoundIds : scanopts(id)
    \/ \E id \in FoundIds : scan_info(id)
    \/ \E id \in FoundIds : scan_viz(id)
    \/ \E id \in FoundIds : clone_scan(id)
    \/ \E id \in FoundIds, fp \in {"0", "1"} :
         resultsetfp(id, JsonList({FpHashes[1]}), fp)
    \/ \E toks \in FoundLists : scandelete(toks)
    \/ \E toks \in FoundLists : stopscan(toks)
    \/ \E id \in FoundIds, spawnFails \in BOOLEAN : rerun_scan(id, spawnFails)
    \/ \E ids \in FoundLists, spawnFails \in BOOLEAN :
         rerun_scan_multi(ids, spawnFails)
    \/ Respond

SpecFound == InitFound /\ [][NextFound]_vars

ExistencePaths ==
    {"scanopts", "scanstatus", "resultsetfp", "scandelete", "stopscan",
     "rerunscan", "rerunscanmulti", "scaninfo", "scanviz", "clonescan"}
\* The scan ids the request names.
AskedIds ==
    IF last.op = "resultsetfp" THEN {last.args[1]} ELSE Range(last.args)
Absent(id) == {r \in pre.inst : r.guid = id} = {}

\* C16: a request of one of the paths that look a scan up, naming only ids
\* without scan instance, is answered 404 and leaves the store and the
\* started processes as they were; and rerunscanmulti writes nothing when
\* one of its ids has no scan instance.
C16_UnknownIsNotFound ==
    /\ scanInstanceGet(UnknownScanId) = {}
    /\ last.op \in ExistencePaths /\ (\A id \in AskedIds : Absent(id))
         => last.status = 404 /\ Db = pre
    /\ last.op = "rerunscanmulti" /\ (\E id \in AskedIds : Absent(id))
         => Db = pre

(***************************************************************************)
(* Requests turned down by the checks of their arguments                   *)
(***************************************************************************)
\* A finished scan with two findings, the module registry loaded, one scan
\* id not yet given out.
InitValid ==
    /\ InitSettings
    /\ scanInstance =
         scanInstanceSet(scanInstanceCreate({}, FpScan), FpScan,
                         Now * 1000, Now * 1000, "FINISHED")
    /\ scanConfig = scanConfigSet({}, FpScan, "_modulesenabled", "sfp__stor_db")
    /\ scanResults = StoreLineage({}, FpScan, [i \in 1..2 |-> i - 1], 2)
    /\ scanLog = {}
    /\ scanCorrelationResults = {} /\ scanCorrelationResultsEvents = {}
    /\ modules = ModRegistry
    /\ usedIds = {FpScan}
    /\ last = NoAnswer
    /\ pre = NoPre

\* resultsetfp with a good and a bad flag, a list and a text that is none.
ValidFpRequests ==
    {[id |-> FpScan, resultids |-> r, fp |-> f] :
       r \in {JsonList({FpHashes[1]}), NotAList}, f \in {"0", "1", "2"}}

NextValid ==
    \/ \E q \in ValidFpRequests : resultsetfp(q.id, q.resultids, q.fp)
    \/ \E q \in ModRequests, spawnFails \in BOOLEAN :
         startscan(q.scanname, q.scantarget, q.modulelist, q.typelist,
                   q.usecase, spawnFails)
    \/ startscan_Loop
    \/ startscan_Poll
    \/ \E s \in ScanIds : EngineCreateSpawned(s)
    \/ Respond

SpecValid == InitValid /\ [][NextValid]_vars

\* The requests the checks of the arguments are to turn down.
FpTurnedDown ==
    /\ last.op = "resultsetfp"
    /\ last.args[3] \notin {"0", "1"} \/ ~last.args[2].list
StartTurnedDown ==
    /\ last.op = "startscan"
    /\ \/ last.args[1] = ""
       \/ last.args[2] = ""
       \/ last.args[3] = <<>> /\ last.args[4] = <<>> /\ last.args[5] = ""
       \/ targetTypeFromString(last.args[2]) = "None"

\* C17: resultsetfp with a flag other than "0" and "1" or with resultids
\* that is no list, and startscan with an empty name, an empty target, no
\* module, type or use case, or a target of no known type, are answered 400
\* and leave the store, the settings and the started processes as they
\* were.
C17_TurnedDownWritesNothing ==
    FpTurnedDown \/ StartTurnedDown =>
      /\ last.status = 400
      /\ Db = pre
C17_Witness ==
    /\ StartTurnedDown
    /\ last.args[2] = "???"
    /\ pre.spawned # {}
    /\ \E r \in pre.res : r.false_positive = 1

(***************************************************************************)
(* stopscan and scandelete, step by step, next to the running engine       *)
(***************************************************************************)
\* GET /api/stopscan, steps 1 and 2: the answer when the request is turned
\* down, else the handler stands before its writes.
stopscan_Check(toks) ==
    LET ids == NonBlank(toks)
        code == stopscan_PreCheck(ids)
    IN  /\ Idle
        /\ pre' = Db
        /\ last' = IF toks = <<Blank>>
                     THEN Answer("stopscan", 404, "No scan specified.", toks)
                   ELSE IF code # 200
                     THEN Answer("stopscan", code, "error", toks)
                   ELSE Answer("stopscan", 0, "CHECKED", toks)
        /\ UNCHANGED <<storeVars, cfgVars, modVars, usedIds>>

\* GET /api/stopscan, steps 3 and 4: scanInstanceSet for every id, whatever
\* the status of the scan is by now, and the answer.
stopscan_Write ==
    /\ Checked /\ last.op = "stopscan"
    /\ scanInstance' = stopscan_Execute(scanInstance, NonBlank(last.args))
    /\ last' = [last EXCEPT !.status = 200, !.body = "success"]
    /\ UNCHANGED <<scanConfig, scanResults, scanLog, scanCorrelationResults,
                   scanCorrelationResultsEvents, cfgVars, modVars, usedIds, pre>>

\* GET /api/scandelete, steps 1 and 2.
scandelete_Check(toks) ==
    LET ids == NonBlank(toks)
        code == scandelete_PreCheck(ids)
    IN  /\ Idle
        /\ pre' = Db
        /\ last' = IF toks = <<Blank>>
                     THEN Answer("scandelete", 404, "No scan specified.", toks)
                   ELSE IF code # 200
                     THEN Answer("scandelete", code, "error", toks)
                   ELSE Answer("scandelete", 0, "CHECKED", toks)
        /\ UNCHANGED <<storeVars, cfgVars, modVars, usedIds>>

\* GET /api/scandelete, steps 3 and 4: scanInstanceDelete for every id and
\* the answer.
scandelete_Write ==
    LET db == scandelete_Execute(Db, NonBlank(last.args))
    IN  /\ Checked /\ last.op = "scandelete"
        /\ scanConfig' = db.cfg
        /\ scanResults' = db.res
        /\ scanLog' = db.log
        /\ scanInstance' = db.inst
        /\ scanCorrelationResults' = db.corr
        /\ scanCorrelationResultsEvents' = db.corrEv
        /\ last' = [last EXCEPT !.status = 200, !.body = "success"]
        /\ UNCHANGED <<cfgVars, modVars, usedIds, pre>>

NextRace ==
    \/ \E s \in ScanIds : EngineCreate(s)
    \/ \E s \in ScanIds : EngineSetStatus(s)
    \/ \E toks \in IdLists : stopscan_Check(toks)
    \/ stopscan_Write
    \/ \E toks \in IdLists : scandelete_Check(toks)
    \/ scandelete_Write
    \/ Respond

SpecRace == InitScan /\ [][NextRace]_vars

\* The status of the scan changes to ABORT-REQUESTED in this step.
AbortWritten(r) ==
    /\ r.status # "ABORT-REQUESTED"
    /\ \E w \in scanInstance' : w.guid = r.guid /\ w.status = "ABORT-REQUESTED"
\* The instance row of the scan is deleted in this step.
Deleted(r) == \A w \in scanInstance' : w.guid # r.guid

\* C18: whatever steps the engine takes around a stopscan request, the
\* status ABORT-REQUESTED is written to a scan only when its status in the
\* store at that moment is RUNNING or STARTING; a FINISHED, ABORTED or
\* ERROR-FAILED scan never becomes ABORT-REQUESTED.
C18_AbortOnlyRunning ==
    [][\A r \in scanInstance :
         AbortWritten(r) => r.status \in {"RUNNING", "STARTING"}]_vars

\* C19: whatever steps the engine takes around a scandelete request, the
\* rows of a scan are not deleted while its status in the store is RUNNING,
\* STARTING or STARTED.
C19_NoDeleteWhileRunning ==
    [][\A r \in scanInstance :
         Deleted(r) => r.status \notin {"RUNNING", "STARTING", "STARTED"}]_vars

(***************************************************************************)
(* SpiderFootDb.dbhLock: the DAL calls of the threads of one process       *)
(***************************************************************************)
MaxHashes == 2        \* hashes in the list of one DAL call

\* The lists of hashes a call carries, each hash once.
HashLists ==
    {l \in SeqsUpTo({"a", "b"}, MaxHashes) :
       \A i, j \in 1..Len(l) : l[i] = l[j] => i = j}

\* The calls the threads make: the scan that is deleted and flagged is
\* FpScan, the scan that is stopped and correlated is FpOther.
DalCalls ==
    {[op |-> "scanInstanceSet", id |-> FpOther, hashes |-> <<>>]}
      \cup {[op |-> "scanInstanceDelete", id |-> FpScan, hashes |-> <<>>]}
      \cup {[op |-> "scanCorrelationList", id |-> FpOther, hashes |-> <<>>]}
      \cup {[op |-> o, id |-> IF o = "scanResultsUpdateFP" THEN FpScan
                               ELSE FpOther,
             hashes |-> l] :
              o \in {"scanResultsUpdateFP", "correlationResultCreate"},
              l \in HashLists}

\* uniqueId of correlationResultCreate: one id for each thread.
uniqueId(t) == <<"corr", t>>

\* A call begins: the checks of the arguments take place before the lock
\* is asked for.  pc 1 is the call in front of its `with self.dbhLock`.
dal_Enter(t, c) ==
    /\ call[t].op = "none"
    /\ c.op = "correlationResultCreate" =>
         uniqueId(t) \notin {r.id : r \in scanCorrelationResults}
    /\ call' = [call EXCEPT ![t] = [op |-> c.op, pc |-> 1, stmts |-> 0,
                                    arg |-> [id |-> c.id, hashes |-> c.hashes]]]
    /\ UNCHANGED <<storeVars, cfgVars, modules, spawned, waited, dbhLock,
                   usedIds, last, pre>>

\* `with self.dbhLock:` the thread goes on when no thread holds the lock.
\* No call asks for the lock while it holds it, so that the lock being
\* re-entrant plays no part.
dal_Acquire(t) ==
    /\ call[t].op # "none"
    /\ call[t].pc = 1
    /\ dbhLock = Unlocked
    /\ dbhLock' = t
    /\ call' = [call EXCEPT ![t].pc = 2]
    /\ UNCHANGED <<storeVars, cfgVars, modules, spawned, waited, usedIds,
                   last, pre>>

\* The thread is inside a `with self.dbhLock` block of the operation.
Inside(t, op) == call[t].op = op /\ dbhLock = t

\* The end of the block of a call and its return: the lock is given back.
Return(t) ==
    /\ dbhLock' = Unlocked
    /\ call' = [call EXCEPT ![t] = NoCall]

\* scanInstanceSet: the UPDATE of the instance row, then the commit.
scanInstanceSet_Call(t) ==
    /\ Inside(t, "scanInstanceSet")
    /\ IF call[t].pc = 2
         THEN /\ scanInstance' = scanInstanceSet(scanInstance, call[t].arg.id,
                                                 -1, -1, "ABORT-REQUESTED")
              /\ call' = [call EXCEPT ![t].pc = 3, ![t].stmts = @ + 1]
              /\ UNCHANGED dbhLock
         ELSE /\ Return(t)
              /\ UNCHANGED scanInstance
    /\ UNCHANGED <<scanConfig, scanResults, scanLog, scanCorrelationResults,
                   scanCorrelationResultsEvents, cfgVars, modules, spawned,
                   waited, usedIds, last, pre>>

\* scanInstanceDelete: the four DELETE statements in the order of the code,
\* then the commit, all inside one block.
scanInstanceDelete_Call(t) ==
    /\ Inside(t, "scanInstanceDelete")
    /\ LET out == scanInstanceDelete(Db, call[t].arg.id)
           pc == call[t].pc
       IN  /\ scanConfig' = IF pc = 2 THEN out.cfg ELSE scanConfig
           /\ scanResults' = IF pc = 3 THEN out.res ELSE scanResults
           /\ scanLog' = IF pc = 4 THEN out.log ELSE scanLog
           /\ scanInstance' = IF pc = 5 THEN out.inst ELSE scanInstance
           /\ IF pc < 6
                THEN /\ call' = [call EXCEPT ![t].pc = @ + 1,
                                             ![t].stmts = @ + 1]
                     /\ UNCHANGED dbhLock
                ELSE Return(t)
    /\ UNCHANGED <<scanCorrelationResults, scanCorrelationResultsEvents,
                   cfgVars, modules, spawned, waited, usedIds, last, pre>>

\* scanResultsUpdateFP: one UPDATE for each hash of the list, then the
\* commit, all inside one block.
scanResultsUpdateFP_Call(t) ==
    /\ Inside(t, "scanResultsUpdateFP")
    /\ LET left == call[t].arg.hashes
       IN  IF left # <<>>
             THEN /\ scanResults' = scanResultsUpdateFP(scanResults,
                                      call[t].arg.id, {Head(left)}, 1)
                  /\ call' = [call EXCEPT ![t].arg.hashes = Tail(left),
                                          ![t].stmts = @ + 1]
                  /\ UNCHANGED dbhLock
             ELSE /\ Return(t)
                  /\ UNCHANGED scanResults
    /\ UNCHANGED <<scanInstance, scanConfig, scanLog, scanCorrelationResults,
                   scanCorrelationResultsEvents, cfgVars, modules, spawned,
                   waited, usedIds, last, pre>>

\* scanCorrelationList: the SELECT, and the return from inside the block.
scanCorrelationList_Call(t) ==
    /\ Inside(t, "scanCorrelationList")
    /\ IF call[t].pc = 2
         THEN /\ call' = [call EXCEPT ![t].pc = 3, ![t].stmts = @ + 1]
              /\ UNCHANGED dbhLock
         ELSE Return(t)
    /\ UNCHANGED <<storeVars, cfgVars, modules, spawned, waited, usedIds,
                   last, pre>>

\* correlationResultCreate, the first block: the result row is added and
\* committed, and the block ends: the lock is given back while the call
\* goes on.  pc 4 is the call in front of its second block.
correlationResultCreate_Result(t) ==
    /\ Inside(t, "correlationResultCreate")
    /\ call[t].pc \in {2, 3}
    /\ IF call[t].pc = 2
         THEN /\ scanCorrelationResults' =
                   correlationResultCreate(call[t].arg.id, uniqueId(t), {}).results
              /\ call' = [call EXCEPT ![t].pc = 3, ![t].stmts = @ + 1]
              /\ UNCHANGED dbhLock
         ELSE /\ dbhLock' = Unlocked
              /\ call' = [call EXCEPT ![t].pc = 4, ![t].stmts = @ + 1]
              /\ UNCHANGED scanCorrelationResults
    /\ UNCHANGED <<scanInstance, scanConfig, scanResults, scanLog,
                   scanCorrelationResultsEvents, cfgVars, modules, spawned,
                   waited, usedIds, last, pre>>

\* correlationResultCreate, the second `with self.dbhLock:`.
correlationResultCreate_Again(t) ==
    /\ call[t].op = "correlationResultCreate"
    /\ call[t].pc = 4
    /\ dbhLock = Unlocked
    /\ dbhLock' = t
    /\ call' = [call EXCEPT ![t].pc = 5]
    /\ UNCHANGED <<storeVars, cfgVars, modules, spawned, waited, usedIds,
                   last, pre>>

\* correlationResultCreate, the second block: one row and one commit for
\* each event hash, then the return of the id.
correlationResultCreate_Events(t) ==
    /\ Inside(t, "correlationResultCreate")
    /\ call[t].pc = 5
    /\ LET left == call[t].arg.hashes
       IN  IF left # <<>>
             THEN /\ scanCorrelationResultsEvents' =
                       correlationResultCreate(call[t].arg.id, uniqueId(t),
                                               {Head(left)}).events
                  /\ call' = [call EXCEPT ![t].arg.hashes = Tail(left),
                                          ![t].stmts = @ + 1]
                  /\ UNCHANGED dbhLock
             ELSE /\ Return(t)
                  /\ UNCHANGED scanCorrelationResultsEvents
    /\ UNCHANGED <<scanInstance, scanConfig, scanResults, scanLog,
                   scanCorrelationResults, cfgVars, modules, spawned, waited,
                   usedIds, last, pre>>

\* A finished scan with its findings and a running scan.
InitLock ==
    /\ InitSettings
    /\ scanInstance =
         scanInstanceSet(
           scanInstanceSet(
             scanInstanceCreate(scanInstanceCreate({}, FpScan), FpOther),
             FpOther, Now * 1000, -1, "RUNNING"),
           FpScan, Now * 1000, Now * 1000, "FINISHED")
    /\ scanConfig = scanConfigSet({}, FpScan, "_modulesenabled", "sfp__stor_db")
    /\ scanResults = StoreLineage(StoreLineage({}, FpOther, [i \in 1..2 |-> 0], 2),
                                  FpScan, [i \in 1..2 |-> 0], 2)
    /\ scanLog = scanLogEvent({}, FpScan, Now, "STATUS")
    /\ scanCorrelationResults = {} /\ scanCorrelationResultsEvents = {}
    /\ modules = <<>>
    /\ usedIds = {FpScan, FpOther}
    /\ last = NoAnswer
    /\ pre = NoPre

NextLock ==
    \/ \E t \in Threads, c \in DalCalls : dal_Enter(t, c)
    \/ \E t \in Threads : dal_Acquire(t)
    \/ \E t \in Threads : scanInstanceSet_Call(t)
    \/ \E t \in Threads : scanInstanceDelete_Call(t)
    \/ \E t \in Threads : scanResultsUpdateFP_Call(t)
    \/ \E t \in Threads : scanCorrelationList_Call(t)
    \/ \E t \in Threads : correlationResultCreate_Result(t)
    \/ \E t \in Threads : correlationResultCreate_Again(t)
    \/ \E t \in Threads : correlationResultCreate_Events(t)

SpecLock == InitLock /\ [][NextLock]_vars

\* The call of the thread has had its last commit: correlationResultCreate
\* once the result row is committed and no event hash is left.
PastLastCommit(t) ==
    /\ call[t].op = "correlationResultCreate"
    /\ call[t].pc >= 4
    /\ call[t].arg.hashes = <<>>

\* The call of the thread is between its first store statement and its
\* last commit.
InFlight(t) ==
    /\ call[t].op # "none"
    /\ call[t].stmts > 0
    /\ ~PastLastCommit(t)

\* The thread executes a store statement in this step.
Executes(u) == call'[u].op # "none" /\ call'[u].stmts > call[u].stmts

\* C20: while the DAL operation of one thread is between its first store
\* statement and its last commit, no other thread of the process executes a
\* store statement; this holds for every operation, the multi-statement
\* ones (scanInstanceDelete, correlationResultCreate, scanResultsUpdateFP)
\* included.
C20_NoOverlap ==
    [][\A t, u \in Threads : t # u /\ InFlight(t) => ~Executes(u)]_vars

(***************************************************************************)
(* SpiderFootDb.correlationResultCreate: the rows a call leaves            *)
(***************************************************************************)
CorrIds == {"c1", "c2", "c3"}      \* the ids uniqueId generates

\* The lists of event hashes of a call: a hash may be in the list twice.
CorrHashLists == SeqsUpTo({"a", "b"}, MaxHashes)

\* The second block with the join rows of a failed call rolled back.
correlationResultCreate_Join_RolledBack(events, id, eventHashes, i, failAt) ==
    LET RECURSIVE walk(_, _)
        walk(tbl, k) ==
            IF k > Len(eventHashes)
              THEN [events |-> tbl, raised |-> FALSE]
            ELSE IF k = failAt
                      \/ [correlation_id |-> id, event_hash |-> eventHashes[k]] \in tbl
              THEN [events |-> events, raised |-> TRUE]
              ELSE walk(tbl \cup {[correlation_id |-> id,
                                   event_hash |-> eventHashes[k]]}, k + 1)
    IN  walk(events, i)
\* correlationResultCreate, the second block: for each event hash, from the
\* i-th on, a join row is added and committed.  An insert fails when the
\* database fails (failAt) or when the row's primary key (correlation_id,
\* event_hash) is in the table; the call then raises IOError, and the rows
\* committed before stay.
RECURSIVE correlationResultCreate_Join(_, _, _, _, _)
correlationResultCreate_Join(events, id, eventHashes, i, failAt) ==
    IF i > Len(eventHashes)
      THEN [events |-> events, raised |-> FALSE]
    ELSE IF i = failAt
              \/ [correlation_id |-> id, event_hash |-> eventHashes[i]] \in events
      THEN [events |-> events, raised |-> TRUE]
      ELSE correlationResultCreate_Join(
             events \cup {[correlation_id |-> id, event_hash |-> eventHashes[i]]},
             id, eventHashes, i + 1, failAt)

\* A call of correlationResultCreate: the result row is added and committed
\* under a fresh id (failAt = -1: this insert fails, IOError), then the
\* join rows; the id is returned when nothing was raised.
correlationResultCreate_Call(instanceId, eventHashes, failAt) ==
    /\ Idle
    /\ \E id \in CorrIds :
         /\ id \notin {r.id : r \in scanCorrelationResults}
         /\ pre' = Db
         /\ IF failAt = -1
              THEN /\ last' = Answer("correlationResultCreate", 500, "IOError",
                                     <<instanceId, eventHashes, failAt, id>>)
                   /\ UNCHANGED <<scanCorrelationResults,
                                  scanCorrelationResultsEvents>>
              ELSE LET join == correlationResultCreate_Join(
                                 scanCorrelationResultsEvents, id, eventHashes,
                                 1, failAt)
                   IN  /\ scanCorrelationResults' =
                            correlationResultCreate(instanceId, id, {}).results
                       /\ scanCorrelationResultsEvents' = join.events
                       /\ last' = Answer("correlationResultCreate",
                                         IF join.raised THEN 500 ELSE 200,
                                         IF join.raised THEN "IOError" ELSE id,
                                         <<instanceId, eventHashes, failAt, id>>)
    /\ UNCHANGED <<scanInstance, scanConfig, scanResults, scanLog, cfgVars,
                   modVars, usedIds>>

NextCorr ==
    \/ \E l \in CorrHashLists, failAt \in -1..MaxHashes :
         correlationResultCreate_Call(FpScan, l, failAt)
    \/ Respond

SpecCorr == InitStore /\ [][NextCorr]_vars

\* correlationResultCreate has been called and has returned or raised.
CorrCalled == last.op = "correlationResultCreate"
\* The rows of the two tables the call has added.
NewResults == scanCorrelationResults \ pre.corr
NewJoins == scanCorrelationResultsEvents \ pre.corrEv
\* The join rows of the first n hashes of the call, under the id.
JoinsOf(id, n) ==
    {[correlation_id |-> id, event_hash |-> last.args[2][i]] : i \in 1..n}
\* The position of the first join-row insert that fails: the one the
\* database fails at, or the first hash that is in the list before.
FirstFailed ==
    Min(({last.args[3]} \cap (1..Len(last.args[2]))) \cup
        {j \in 1..Len(last.args[2]) :
           \E i \in 1..(j - 1) : last.args[2][i] = last.args[2][j]})

\* C21: a call of correlationResultCreate that returns leaves exactly one
\* new result row and exactly one join row for each hash of its list, all
\* under the id it returns; a call whose join-row insert fails raises
\* IOError and leaves the result row and the join rows of the hashes before
\* the failing one.
C21_CorrelationRows ==
    CorrCalled =>
      /\ last.status = 200 =>
           /\ NewResults = {[id |-> last.body, scan_instance_id |-> last.args[1]]}
           /\ NewJoins = JoinsOf(last.body, Len(last.args[2]))
           /\ Cardinality(NewJoins) = Len(last.args[2])
      /\ last.status = 500 /\ last.args[3] # -1 =>
           /\ last.body = "IOError"
           /\ NewResults = {[id |-> last.args[4], scan_instance_id |-> last.args[1]]}
           /\ NewJoins = JoinsOf(last.args[4], FirstFailed - 1)

\* A call has raised at its second join row: the result row and the first
\* join row are in the store.
C21_Witness ==
    /\ CorrCalled
    /\ last.status = 500
    /\ Len(last.args[2]) = 2
    /\ Cardinality(NewJoins) = 1
    /\ Cardinality(NewResults) = 1

(***************************************************************************)
(* SpiderFootDb.scanErrors and the scanerrors request                      *)
(***************************************************************************)
LogTimes == 1..3                   \* the seconds at which log rows are written
LogTypes == {"ERROR", "INFO"}
Limits == 0..3                     \* the limit of a scanerrors request

\* The engine writes a log row of a scan.
EngineLogs(s, generated, type) ==
    /\ Idle
    /\ scanLog' = scanLogEvent(scanLog, s, generated, type)
    /\ UNCHANGED <<scanInstance, scanConfig, scanResults,
                   scanCorrelationResults, scanCorrelationResultsEvents,
                   cfgVars, modVars, usedIds, last, pre>>

\* ORDER BY generated DESC over a set of log rows.
RECURSIVE OrderByGeneratedDesc(_)
OrderByGeneratedDesc(rows) ==
    IF rows = {} THEN <<>>
    ELSE LET newest == CHOOSE r \in rows : \A o \in rows : o.generated <= r.generated
         IN  <<newest>> \o OrderByGeneratedDesc(rows \ {newest})

\* SpiderFootDb.scanErrors: the ERROR rows of the scan, ORDER BY generated
\* DESC.  `if limit is not None` holds for every int, so that LIMIT :limit
\* is part of every query: LIMIT 0 selects no row, a negative LIMIT selects
\* all rows (SQLite).
scanErrors(tbl, instanceId, limit) ==
    LET all == OrderByGeneratedDesc({r \in tbl : /\ r.scan_instance_id = instanceId
                                                 /\ r.type = "ERROR"})
    IN  IF limit < 0 \/ limit >= Len(all) THEN all ELSE SubSeq(all, 1, limit)

\* scan_errors: the rows of scanErrors with the time of each row turned
\* from milliseconds into the text of its second.
scan_errors(id, limit) ==
    LET data == scanErrors(scanLog, id, limit)
    IN  /\ Idle
        /\ pre' = Db
        /\ last' = Answer("scan_errors", 200,
                          [i \in 1..Len(data) |-> data[i].generated \div 1000],
                          <<id, limit>>)
        /\ UNCHANGED <<storeVars, cfgVars, modVars, usedIds>>

NextErrors ==
    \/ \E s \in {FpScan, FpOther}, g \in LogTimes, type \in LogTypes :
         EngineLogs(s, g, type)
    \/ \E id \in {FpScan, FpOther}, limit \in Limits : scan_errors(id, limit)
    \/ Respond

SpecErrors == InitStore /\ [][NextErrors]_vars

\* The seconds of the ERROR rows of the scan the request names.
ErrorSeconds ==
    {r.generated \div 1000 :
       r \in {x \in pre.log : x.scan_instance_id = last.args[1] /\ x.type = "ERROR"}}
\* The list runs from the newest to the oldest second.
NewestFirst(l) == \A i, j \in 1..Len(l) : i < j => l[i] > l[j]
\* The n newest of the seconds.
Newest(S, n) == {x \in S : Cardinality({y \in S : y > x}) < n}

\* C22: a scanerrors request with limit 0 returns every ERROR row of the
\* scan, newest first; with limit n > 0 it returns the n newest ERROR rows,
\* or all of them when there are fewer.
C22_ErrorsLimit ==
    last.op = "scan_errors" =>
      /\ NewestFirst(last.body)
      /\ Range(last.body) =
           IF last.args[2] = 0 THEN ErrorSeconds
           ELSE Newest(ErrorSeconds, last.args[2])

(***************************************************************************)
(* The scaneventresults request                                            *)
(***************************************************************************)
\* SpiderFootDb.scanResultEvent with its filters on the module and on the
\* false-positive flag.  A srcModule that is not a list reaches
\* `qry += ...`, and qry is a name the method never binds: the call ends
\* in a NameError.  filterFp adds c.false_positive <> 1.
scanResultEvent_Filtered(tbl, instanceId, eventType, srcModule, filterFp) ==
    IF srcModule
      THEN [raised |-> TRUE, rows |-> {}]
      ELSE [raised |-> FALSE,
            rows |-> {r \in scanResultEvent(tbl, instanceId, eventType) :
                        filterFp => r.fp # 1}]

\* POST /scaneventresults: an empty eventType stands for 'ALL'; filterfp is
\* handed to scanResultEvent as its third positional argument, which is
\* srcModule, and filterFp keeps its default False.  Any exception of the
\* call is answered with 500 and the empty list.
scaneventresults(id, eventType, filterfp) ==
    LET data == scanResultEvent_Filtered(
                  scanResults, id, IF eventType = "" THEN "ALL" ELSE eventType,
                  filterfp, FALSE)
    IN  /\ Idle
        /\ pre' = Db
        /\ last' = Answer("scaneventresults",
                          IF data.raised THEN 500 ELSE 200,
                          {row.hash : row \in data.rows},
                          <<id, eventType, filterfp>>)
        /\ UNCHANGED <<storeVars, cfgVars, modVars, usedIds>>

NextEvents ==
    \/ \E q \in FpRequests : resultsetfp(q.id, q.resultids, q.fp)
    \/ \E id \in {FpScan, FpOther}, eventType \in {"", "IP_ADDRESS", "ROOT"},
          filterfp \in BOOLEAN :
         scaneventresults(id, eventType, filterfp)
    \/ Respond

SpecEvents == InitSources /\ [][NextEvents]_vars

\* The findings of the scan and event type the request selects.
Selected ==
    {r \in pre.res : /\ r.scan_instance_id = last.args[1]
                     /\ last.args[2] \in {"", r.type}}

\* C23: scaneventresults with filterfp true returns no finding whose
\* false_positive flag is 1 and every finding of the selected scan and event
\* type whose flag is 0; with filterfp false it returns the flagged findings
\* as well.
C23_FilterFp ==
    last.op = "scaneventresults" =>
      last.body = {r.hash : r \in {x \in Selected :
                                     last.args[3] => x.false_positive = 0}}

(***************************************************************************)
(* SpiderFootDb.configSet, configGet and configClear                       *)
(***************************************************************************)
\* The option maps of the calls: texts under plain keys and keys with
\* colons, no two keys of a map with the same scope and option.
TblKeys == {"_debug", "_dnsserver"} \cup {k[1] : k \in ScopedKeys}
TblMaps ==
    UNION {{f \in [K -> {"0", "1"}] :
              \A a, b \in K : (ScopeOf(a) = ScopeOf(b) /\ KeyOf(a) = KeyOf(b))
                                => a = b} :
           K \in SUBSET TblKeys}

\* A call of configSet: ValueError for the empty map, else the rows merged.
configSet_Tbl(optMap) ==
    /\ Idle
    /\ pre' = Db
    /\ IF DOMAIN optMap = {}
         THEN /\ last' = Answer("configSet", 500, "ValueError", <<optMap>>)
              /\ UNCHANGED tblConfig
         ELSE /\ last' = Answer("configSet", 200, "True", <<optMap>>)
              /\ tblConfig' = configSet(tblConfig, optMap)
    /\ UNCHANGED <<storeVars, config, modVars, usedIds>>

\* A call of configClear.
configClear_Tbl ==
    /\ Idle
    /\ pre' = Db
    /\ last' = Answer("configClear", 200, "None", <<>>)
    /\ tblConfig' = configClear(tblConfig)
    /\ UNCHANGED <<storeVars, config, modVars, usedIds>>

NextTbl ==
    \/ \E optMap \in TblMaps : configSet_Tbl(optMap)
    \/ configClear_Tbl
    \/ Respond

SpecTbl == InitCfg /\ [][NextTbl]_vars

\* configSet has stored the map of its argument.
TblSet == last.op = "configSet" /\ last.status = 200
\* The map m with the options of n it does not name.
Over(m, n) ==
    [opt \in DOMAIN m \cup DOMAIN n |-> IF opt \in DOMAIN m THEN m[opt] ELSE n[opt]]

\* C24: for every non-empty option map m, configGet after configSet(m) on an
\* empty table returns exactly m, for plain keys and for keys with a colon
\* alike; a later configSet overwrites only the keys it names; configGet
\* after configClear returns the empty map.
C24_ConfigRoundTrip ==
    /\ TblSet => configGet(tblConfig) = Over(last.args[1], configGet(pre.opts))
    /\ last.op = "configClear" => configGet(tblConfig) = EmptyOpts

(***************************************************************************)
(* rerunscanmulti: the scans started and the scans reported                *)
(***************************************************************************)
\* The ids of the scan processes the request has started.
StartedIds == {child.scanId : child \in spawned \ pre.spawned}

\* C25: every scan rerunscanmulti starts is reported to the caller: the id
\* of each scan process started for an id of the list is in the response,
\* also when a later id of the list is rejected or times out.
C25_SpawnedAreReported ==
    last.op = "rerunscanmulti" => StartedIds \subseteq last.body

(***************************************************************************)
(* resultsetfp: the flags along the lineage                                *)
(***************************************************************************)
\* C26: after any sequence of resultsetfp requests on a scan whose findings
\* start unflagged, the flags are closed downward: every finding whose
\* parent finding has false_positive = 1 has false_positive = 1 itself.
C26_FlagsClosedDownward ==
    \A c \in scanResults, s \in scanResults :
       (/\ s.scan_instance_id = c.scan_instance_id
        /\ s.hash = c.source_event_hash
        /\ s.false_positive = 1)
         => c.false_positive = 1


(***************************************************************************)
(* Termination of the two lineage walks                                    *)
(***************************************************************************)
\* A call of scanElementChildrenAll with a list of parent ids: status 1
\* with the hashes of datamap when the loop has ended, status 0 when the
\* loop goes on asking for the children of a hash it asked for before.
scanElementChildrenAll_Call(instanceId, parentIds) ==
    /\ pre' = Db
    /\ \E out \in scanElementChildrenAll(scanResults, instanceId, parentIds) :
         last' = Answer("scanElementChildrenAll", IF out.done THEN 1 ELSE 0,
                        out.childs, <<instanceId, parentIds>>)
    /\ UNCHANGED <<storeVars, cfgVars, modVars, usedIds>>

NextWalks ==
    \/ /\ Idle
       /\ \E parentIds \in IdSets :
            scanElementChildrenAll_Call(FpScan, parentIds)
    \/ /\ Idle
       /\ \E leafs \in SUBSET Range(FpHashes) :
            scanElementSourcesAll_Call(FpScan, leafs)
    \/ Respond

SpecWalks == InitSources /\ [][NextWalks]_vars

\* C27: scanElementChildrenAll ends for every list of parent ids, a list
\* with ROOT, an empty list and a list of non-alphanumeric tokens among
\* them, and scanElementSourcesAll ends for every non-empty leaf set whose
\* parent chains reach ROOT.
C27_WalksTerminate ==
    /\ last.op = "scanElementChildrenAll" => last.status # 0
    /\ last.op = "scanElementSourcesAll" /\ last.args[2] # {} => last.status # 0


\* C28: in the data map scanElementSourcesAll returns every entry is
\* keyed by the hash of the row it holds, and the findings that have an
\* entry are the leaves and the ancestors on their paths to ROOT.
C28_DatamapKeyedByHash ==
    (SourcesAsked /\ last.status # 0) =>
      /\ \A entry \in last.body.data : entry[1] = entry[2]
      /\ {entry[1] : entry \in last.body.data} \ {ROOT} = OnPaths


(***************************************************************************)
(* Settings saved and scans started by one web process                     *)
(***************************************************************************)
\* One finished scan with its configuration; the modules are registered
\* and no scan process has been started.
InitSnap ==
    /\ InitSettings
    /\ scanInstance =
         scanInstanceSet(scanInstanceCreate({}, FpScan), FpScan,
                         Now * 1000, Now * 1000, "FINISHED")
    /\ scanConfig = scanConfigSet({}, FpScan, "_modulesenabled", "sfp__stor_db")
    /\ scanResults = {} /\ scanLog = {}
    /\ scanCorrelationResults = {} /\ scanCorrelationResultsEvents = {}
    /\ modules = ModRegistry
    /\ usedIds = {FpScan}
    /\ last = NoAnswer
    /\ pre = NoPre

SnapSettings == {RESET, JsonObject("_debug" :> "1")}

NextSnap ==
    \/ \E allopts \in SnapSettings, storeFails \in BOOLEAN :
         savesettings(allopts, NoFile, storeFails)
    \/ Restart
    \/ \E spawnFails \in BOOLEAN :
         startscan("scan", "Example.com", <<"sfp_a">>, <<>>, "", spawnFails)
    \/ startscan_Loop
    \/ startscan_Poll
    \/ \E s \in ScanIds : EngineCreateSpawned(s)
    \/ \E spawnFails \in BOOLEAN : rerun_scan(FpScan, spawnFails)
    \/ \E spawnFails \in BOOLEAN : rerun_scan_multi(<<FpScan, FpScan>>, spawnFails)
    \/ Respond

SpecSnap == InitSnap /\ [][NextSnap]_vars

\* C29: a scan process is started with the effective configuration of the
\* moment its request is handled, no later step (a settings save, a reset,
\* a restart, another start) changes the configuration of a scan process
\* already started, and the steps of startscan, rerunscan and
\* rerunscanmulti leave the configuration of the web process and the
\* persisted settings as they are.
C29_SpawnedCfgIsSnapshot ==
    [][/\ spawned \subseteq spawned'
       /\ \A child \in spawned' \ spawned : child.cfg = config
       /\ last'.op \in {"startscan", "rerunscan", "rerunscanmulti"}
            => cfgVars' = cfgVars]_vars
\* Two scan processes run with different configurations, the later one
\* with the configuration in effect, after settings were saved and the web
\* process was started again between the two starts.
C29_Witness ==
    \E c1, c2 \in spawned :
      /\ c1.cfg = defaultConfig
      /\ c2.cfg # defaultConfig
      /\ c2.cfg = config
      /\ tblConfig # {}


(***************************************************************************)
(* The scan process after the initialization timeout                       *)
(***************************************************************************)
StartOps == {"startscan", "rerunscan", "rerunscanmulti"}

\* The answer of startscan that the scan did not show up in time.
TimedOut ==
    /\ last.op = "startscan"
    /\ last.status = 500
    /\ last.body = "Scan failed to initialize within the timeout."

\* The scan process, started by the request that has just answered 500,
\* creates its scan instance: it runs on, whatever the web process
\* answered and whether or not the answer has been read.
EngineCreateLate(s) ==
    /\ last.op \in StartOps /\ last.status = 500
    /\ \E child \in spawned \ pre.spawned : child.scanId = s
    /\ scanInstanceGet(s) = {}
    /\ scanInstance' = scanInstanceCreate(scanInstance, s)
    /\ UNCHANGED <<scanConfig, scanResults, scanLog, scanCorrelationResults,
                   scanCorrelationResultsEvents, cfgVars, modVars, usedIds,
                   last, pre>>

EngineIds == ScanIds \cup Range(RerunIds)

NextTimeout ==
    \/ \E spawnFails \in BOOLEAN :
         startscan("scan", "Example.com", <<"sfp_a">>, <<>>, "", spawnFails)
    \/ startscan_Loop
    \/ startscan_Poll
    \/ \E s \in EngineIds : EngineCreateSpawned(s)
    \/ \E s \in EngineIds : EngineCreateLate(s)
    \/ \E spawnFails \in BOOLEAN : rerun_scan(FpScan, spawnFails)
    \/ \E spawnFails \in BOOLEAN : rerun_scan_multi(<<FpScan, FpScan>>, spawnFails)
    \/ Respond

SpecTimeout == InitSnap /\ [][NextTimeout]_vars

\* C30: no step of the web process ends a scan process it has started;
\* when startscan answers the initialization timeout the process it
\* started is among those running, and a running scan process whose
\* instance is not in the store can still create it once the web process
\* has answered.
C30_ChildOutlivesTimeout ==
    /\ [][spawned \subseteq spawned']_vars
    /\ [](TimedOut => spawned \ pre.spawned # {})
    /\ [](\A child \in spawned :
            (Idle /\ scanInstanceGet(child.scanId) = {})
              => ENABLED EngineCreateSpawned(child.scanId))
\* The timeout error of startscan stands as the answer, and the scan
\* instance of the scan it started is in the store.
C30_Witness ==
    /\ TimedOut
    /\ scanInstanceGet(Polled.scanId) # {}

====
